---- MODULE Spec2Model ----
(***************************************************************************)
(* A model of the runtime engine of real_time_voice_processing             *)
(* (runtime/engine.py, runtime/audio_source.py, signal_processing/).       *)
(*                                                                         *)
(* Three kinds of threads run AudioRuntime's code:                         *)
(*   - the caller (UI) thread, which calls start(), stop(),                *)
(*     set_audio_source() and save_data();                                 *)
(*   - ingestion threads running _audio_capture_thread;                    *)
(*   - processing threads running _signal_processing_thread.               *)
(* The caller runs one of a fixed set of programs (Programs), each a       *)
(* sequence of calls; the threads interleave with it and with each other   *)
(* in every order.  A loop test, a call on the audio source, a statement   *)
(* of set_audio_source and a `with self.lock:` block are steps of their    *)
(* own; the computation of one frame between the dequeue and the append    *)
(* (features, calibration, gating, smoothing) is one step.                 *)
(*                                                                         *)
(* Besides the specification of the whole runtime (Spec) there are         *)
(* specifications of single scenarios (UnattendedSpec, SnapshotSpec,       *)
(* RestartSpec, StreamSpec, CancelSpec) and one in which an operation is   *)
(* applied on its own to inputs drawn by the initial state (FunctionSpec): *)
(* get_recent_processed, get_recent_audio, the smoothing and the gating of *)
(* a frame, framing, the feature extractors and the offline                *)
(* compute_file_stats of analyze_file.py.  The variable trial holds the    *)
(* inputs and the result of such an operation; in RestartSpec and          *)
(* StreamSpec it records what the processing threads have done.            *)
(*                                                                         *)
(* Numbers.  Samples are int16 amplitudes.  A window weight is held in     *)
(* percent, and amplitudes are multiples of 100, so a windowed sample and  *)
(* the short-time energy are exact integers.  The zero-crossing rate is    *)
(* held as the number of crossings (unit 1/FRAME_SIZE), the spectral       *)
(* entropy in percent.  The three thresholds are held in hundredths of     *)
(* the unit of their feature, which makes numpy's linearly interpolated    *)
(* percentiles exact.  Buffer sizes and frame geometry are scaled down     *)
(* from config.py; the names are those of config.py.                       *)
(***************************************************************************)
EXTENDS Integers, Sequences, FiniteSets, TLC

\* ------------------------------------------------------------------ bounds
NumSources == 2      \* audio source objects the caller can install
SourceChunks == 3    \* chunks of CHUNK_SIZE samples a source file holds
MaxFaults == 1       \* exceptions raised by open()/read() in one behaviour
TrialRecords == 3    \* records of a processed_data an operation is applied to
TrialChunks == 3     \* chunks of a display buffer an operation is applied to
TrialChunkLen == 2   \* samples of such a chunk
TrialFrames == 6     \* raw decisions of a run the smoothing is applied to
TrialSamples == 4    \* samples of a signal framing is applied to
TrialFrameSize == 3  \* largest frame_size and hop_size framing is applied with
TrialRows == 2       \* frames of a 2-D array a feature extractor is applied to
TrialFilters == 3    \* largest num_filters compute_mfcc is applied with
TrialCeps == 3       \* largest num_ceps compute_mfcc is applied with
TrialLifter == 2     \* largest lifter compute_mfcc is applied with
TrialAttack == 3     \* largest VAD_ATTACK_ON the smoothing is applied with
TrialTarget == 2     \* largest calibration target the calibration is applied with
TrialCalFrames == 4  \* frames of a session the calibration is applied to

\* ----------------------------------------------------- scaled configuration
CHUNK_SIZE == 1
FRAME_SIZE == 2
HOP_SIZE == FRAME_SIZE \div 2
AUDIO_BUFFER_SIZE == 2
PROCESSED_DATA_BUFFER_SIZE == 1
HISTORY_MAXLEN == 1
DISPLAY_CHUNKS_MIN == 2
WAVEFORM_DISPLAY_LENGTH == 2
CALIBRATION_FRAMES == 2

\* ------------------------------------------------------- configuration
ENERGY_THRESHOLD == 1000
ZCR_THRESHOLD_PCT == 30
SPECTRAL_ENTROPY_VOICE_MAX_PCT == 65
USE_ADAPTIVE_VAD == TRUE
VAD_HANGOVER_ON == 3
VAD_RELEASE_OFF == 2
OFFLINE_HISTORY_MAXLEN == 256
VAD_ATTACK_ON == 1
AUTO_ENERGY_PERCENTILE == 80
AUTO_ZCR_PERCENTILE == 30
AUTO_ENTROPY_PERCENTILE == 70
MIN_ENERGY_THRESHOLD == 0

Max(a, b) == IF a >= b THEN a ELSE b
Min(a, b) == IF a <= b THEN a ELSE b
Clip(x, lo, hi) == Max(lo, Min(x, hi))

Sources == 1..NumSources
None == 0

\* display_chunks = max(8, int(WAVEFORM_DISPLAY_LENGTH / max(1, CHUNK_SIZE)))
display_chunks == Max(DISPLAY_CHUNKS_MIN, WAVEFORM_DISPLAY_LENGTH \div Max(1, CHUNK_SIZE))

\* a deque created without maxlen: append never drops
DequeAppendUnbounded(q, x, cap) == q \o <<x>>

\* collections.deque(maxlen=cap).append(x): drops the oldest entry when full
DequeAppend(q, x, cap) ==
    IF cap = 0 THEN << >>
    ELSE IF Len(q) >= cap THEN Tail(q) \o <<x>>
    ELSE q \o <<x>>

\* list.append on an unbounded Python list
ListAppend(l, x) == l \o <<x>>

\* ------------------------------------------------------------ source files
\* The decoded PCM content of the files behind the sources.  A profile fixes
\* the content of every source; Init draws the profile.
\* pcm[s][i] is sample i of source s; entropy[s][i] is the spectral entropy
\* (percent) of the frame of source s that starts at sample i, which the
\* model takes from the profile instead of computing an FFT.
SourceLen == SourceChunks * CHUNK_SIZE
ProfilesOf(len) ==
    { [pcm |-> [s \in Sources |->
                  IF s = 1 THEN [i \in 1..len |-> IF i <= 2 THEN 400 ELSE 0]
                  ELSE [i \in 1..len |-> IF i % 2 = 1 THEN -400 ELSE 100]],
       entropy |-> [s \in Sources |-> [i \in 1..len |->
                      IF i % 2 = 1 THEN 30 ELSE 90]]] }

Profiles == ProfilesOf(SourceLen)

\* ------------------------------------------------------- signal processing
\* hamming_window(length): 0.54 - 0.46*cos(2*pi*i/(length-1)), in percent
hamming_window(length) ==
    CASE length <= 0 -> << >>
      [] length = 2 -> <<8, 8>>
      [] length = 3 -> <<8, 100, 8>>
      [] length = 4 -> <<8, 77, 77, 8>>
      [] length = 5 -> <<8, 54, 100, 54, 8>>

window == hamming_window(FRAME_SIZE)

\* rectangular_window(length), in percent
rectangular_window(length) == IF length <= 0 THEN << >> ELSE [i \in 1..length |-> 100]

RECURSIVE SumSeq(_)
SumSeq(s) == IF s = << >> THEN 0 ELSE Head(s) + SumSeq(Tail(s))

Sign(x) == IF x > 0 THEN 1 ELSE IF x < 0 THEN -1 ELSE 0
Abs(x) == IF x < 0 THEN -x ELSE x

\* frame * self.window (weights in percent, amplitudes multiples of 100)
Windowed(frame) == [i \in 1..Len(frame) |-> (frame[i] * window[i]) \div 100]

\* SignalProcessing.calculate_short_time_energy, one-dimensional input
calculate_short_time_energy(arr) == SumSeq([i \in 1..Len(arr) |-> arr[i] * arr[i]])

\* SignalProcessing.calculate_zero_crossing_rate, one-dimensional input:
\* np.sum(np.abs(np.diff(np.sign(arr))) > 0); the division by arr.size is
\* kept in the unit (1/FRAME_SIZE)
calculate_zero_crossing_rate(arr) ==
    IF Len(arr) = 0 THEN 0
    ELSE Cardinality({i \in 1..(Len(arr) - 1) : Abs(Sign(arr[i + 1]) - Sign(arr[i])) > 0})

\* np.percentile(a, q), linear interpolation, times 100
Percentile100(a, q) ==
    LET sorted == SortSeq(a, <)
        k == q * (Len(a) - 1)
        lo == (k \div 100) + 1
        fr == k % 100
    IN IF fr = 0 THEN 100 * sorted[lo]
       ELSE 100 * sorted[lo] + fr * (sorted[lo + 1] - sorted[lo])

\* adaptive_voice_activity_detection with alpha = energy_k = 3.0:
\*   energy_th = max(1e-6, alpha*hist + (1-alpha)*cur), cur = energy
\*   zcr_th    = min(0.5,  alpha*hist + (1-alpha)*cur), cur = zcr
\*   vad = energy > energy_th and zcr > zcr_th
\* alpha*h + (1-alpha)*e < e  <=>  h < e  for alpha = 3; h = sum/len.
adaptive_voice_activity_detection(energy, zcr, eh, zh) ==
    LET e_above == IF eh = << >> THEN FALSE ELSE energy * Len(eh) > SumSeq(eh)
        z_above == IF zh = << >> THEN FALSE ELSE zcr * Len(zh) > SumSeq(zh)
    IN (energy > 0 /\ e_above) /\ (2 * zcr > FRAME_SIZE \/ z_above)


\* -------------------------------------------------------------------- state
VARIABLES
    data,                    \* PCM content of the source files (fixed by Init)
    program,                 \* the calls the caller thread makes (fixed by Init)
    auto_calibrate,          \* Config.AUTO_CALIBRATE_THRESHOLDS
    trial,                   \* an operation applied on its own: inputs, result
    audio_source,            \* self.audio_source
    auto_stop_on_eof,        \* self.auto_stop_on_eof
    is_running,              \* self.is_running
    audio_thread,            \* self.audio_thread
    processing_thread,       \* self.processing_thread
    last_error,              \* self.last_error
    audio_buffer,            \* self.audio_buffer
    audio_display_buffer,    \* self.audio_display_buffer
    processed_data,          \* self.processed_data
    energy_history,          \* self.energy_history
    zcr_history,             \* self.zcr_history
    calibration_done,        \* self._calibration_done
    cal_energy,              \* self._cal_energy
    cal_zcr,                 \* self._cal_zcr
    cal_entropy,             \* self._cal_entropy
    energy_threshold,        \* self.energy_threshold
    zcr_threshold,           \* self.zcr_threshold
    spec_entropy_voice_max,  \* self.spec_entropy_voice_max
    vad_hold,                \* self._vad_hold
    silence_run,             \* self._silence_run
    voice_run,               \* self._voice_run
    source,                  \* the FileAudioSource objects
    capture,                 \* the ingestion threads, by session
    processing,              \* the processing threads, by session
    ui,                      \* the caller thread
    sessions,                \* threads pairs created so far
    faults                   \* exceptions raised by sources so far

config == <<data, program, auto_calibrate, trial>>
queues == <<audio_buffer, audio_display_buffer, processed_data, energy_history, zcr_history>>
calib == <<calibration_done, cal_energy, cal_zcr, cal_entropy>>
thresholds == <<energy_threshold, zcr_threshold, spec_entropy_voice_max>>
vadstate == <<vad_hold, silence_run, voice_run>>
handles == <<audio_thread, processing_thread>>
selection == <<audio_source, auto_stop_on_eof>>

vars == <<config, selection, is_running, handles, last_error, queues, calib,
          thresholds, vadstate, source, capture, processing, ui, sessions,
          faults>>

\* ------------------------------------------------------------ the caller
\* The programs of the caller thread: sequences of calls on one AudioRuntime.
Start == [op |-> "start", src |-> None, auto |-> FALSE]
Stop == [op |-> "stop", src |-> None, auto |-> FALSE]
SaveData == [op |-> "save_data", src |-> None, auto |-> FALSE]
SetAudioSource(s, auto) == [op |-> "set_audio_source", src |-> s, auto |-> auto]

Programs ==
    { <<Start, Start, SaveData, Stop>>,
      <<SetAudioSource(1, TRUE), Start, Stop, Start>>,
      <<SetAudioSource(1, TRUE), Start, SetAudioSource(2, FALSE), Start>>,
      <<Start, SetAudioSource(2, TRUE), Start, SaveData>> }

\* the most thread pairs a program starts
Starts(p) == Cardinality({i \in DOMAIN p : p[i].op = "start"})
MaxSessions == CHOOSE n \in 0..8 : /\ \E p \in Programs : Starts(p) = n
                                   /\ \A p \in Programs : Starts(p) <= n
Sessions == 1..MaxSessions

\* FileAudioSource.__init__: nothing decoded, position 0, not exhausted
NewSource == [pcm |-> FALSE, pos |-> 0, exhausted |-> FALSE]

\* self.last_error = None; an exception is held as the call that raised it
NoError == [op |-> "none", src |-> None]

NoCapture == [pc |-> "none", stream_opened |-> FALSE, opened |-> None,
              closed |-> None, audio_data |-> << >>]
NoProcessing == [pc |-> "none", overlap_buffer |-> << >>, rec |-> << >>]
\* no operation is applied on its own
NoTrial == [op |-> "none"]

\* the static thresholds of config.py in hundredths of the feature's unit
StaticEnergyThreshold == 100 * ENERGY_THRESHOLD
StaticZcrThreshold == ZCR_THRESHOLD_PCT * FRAME_SIZE
StaticEntropyMax == 100 * SPECTRAL_ENTROPY_VOICE_MAX_PCT

\* AudioRuntime.__init__, for a caller that runs one of the given programs
InitFrom(programs, profiles) ==
    /\ data \in profiles
    /\ program \in programs
    /\ auto_calibrate \in BOOLEAN
    /\ audio_source = 1
    /\ auto_stop_on_eof = FALSE
    /\ is_running = FALSE
    /\ audio_thread = None
    /\ processing_thread = None
    /\ last_error = NoError
    /\ audio_buffer = << >>
    /\ audio_display_buffer = << >>
    /\ processed_data = << >>
    /\ energy_history = << >>
    /\ zcr_history = << >>
    /\ calibration_done = FALSE
    /\ cal_energy = << >>
    /\ cal_zcr = << >>
    /\ cal_entropy = << >>
    /\ energy_threshold = StaticEnergyThreshold
    /\ zcr_threshold = StaticZcrThreshold
    /\ spec_entropy_voice_max = StaticEntropyMax
    /\ vad_hold = 0
    /\ silence_run = 0
    /\ voice_run = 0
    /\ source = [s \in Sources |-> NewSource]
    /\ capture = [k \in Sessions |-> NoCapture]
    /\ processing = [k \in Sessions |-> NoProcessing]
    /\ ui = [pc |-> "idle", ret |-> "idle", i |-> 1, src |-> None,
             auto |-> FALSE, snap |-> << >>]
    /\ sessions = 0
    /\ faults = 0

InitWith(programs) == InitFrom(programs, Profiles)

Init == InitWith(Programs) /\ trial = NoTrial

\* the next call of the caller's program
NextCall == IF ui.i > Len(program) THEN "none" ELSE program[ui.i].op
\* the call the caller made last
PrevCall == IF ui.i = 1 THEN "none" ELSE program[ui.i - 1].op

\* threading.Thread.is_alive()
CaptureAlive(k) == capture[k].pc \notin {"none", "done"}
ProcessingAlive(k) == processing[k].pc \notin {"none", "done", "crashed"}

\* ------------------------------------------------------ the caller thread
\* start without the `if not self.is_running:` test
start_unguarded ==
    /\ ui.pc = "idle"
    /\ NextCall = "start"
    /\ ui' = [ui EXCEPT !.i = @ + 1]
    /\ sessions < MaxSessions
    /\ is_running' = TRUE
    /\ sessions' = sessions + 1
    /\ audio_thread' = sessions + 1
    /\ processing_thread' = sessions + 1
    /\ capture' = [capture EXCEPT ![sessions + 1] =
                      [NoCapture EXCEPT !.pc = "open"]]
    /\ processing' = [processing EXCEPT ![sessions + 1] =
                         [NoProcessing EXCEPT !.pc = "loop"]]
    /\ UNCHANGED <<config, selection, last_error, queues, calib, thresholds,
                   vadstate, source, faults>>

\* AudioRuntime.start
start ==
    /\ ui.pc = "idle"
    /\ NextCall = "start"
    /\ ui' = [ui EXCEPT !.i = @ + 1]
    /\ IF ~is_running
       THEN /\ is_running' = TRUE
            /\ sessions' = sessions + 1
            /\ audio_thread' = sessions + 1
            /\ processing_thread' = sessions + 1
            /\ capture' = [capture EXCEPT ![sessions + 1] =
                              [NoCapture EXCEPT !.pc = "open"]]
            /\ processing' = [processing EXCEPT ![sessions + 1] =
                                 [NoProcessing EXCEPT !.pc = "loop"]]
       ELSE UNCHANGED <<is_running, sessions, handles, capture, processing>>
    /\ UNCHANGED <<config, selection, last_error, queues, calib, thresholds,
                   vadstate, source, faults>>

\* the caller enters AudioRuntime.stop
call_stop ==
    /\ ui.pc = "idle"
    /\ NextCall = "stop"
    /\ ui' = [ui EXCEPT !.pc = "stop", !.ret = "idle", !.i = @ + 1]
    /\ UNCHANGED <<config, selection, is_running, handles, last_error, queues,
                   calib, thresholds, vadstate, source, capture, processing,
                   sessions, faults>>

\* AudioRuntime.stop, up to the first join
stop ==
    /\ ui.pc = "stop"
    /\ IF is_running
       THEN /\ is_running' = FALSE
            /\ ui' = [ui EXCEPT !.pc = "join_audio"]
       ELSE /\ UNCHANGED is_running
            /\ ui' = [ui EXCEPT !.pc = ui.ret, !.ret = "idle"]
    /\ UNCHANGED <<config, selection, handles, last_error, queues, calib,
                   thresholds, vadstate, source, capture, processing, sessions,
                   faults>>

\* if self.audio_thread: self.audio_thread.join()
stop_join_audio ==
    /\ ui.pc = "join_audio"
    /\ audio_thread # None => ~CaptureAlive(audio_thread)
    /\ ui' = [ui EXCEPT !.pc = "join_processing"]
    /\ UNCHANGED <<config, selection, is_running, handles, last_error, queues,
                   calib, thresholds, vadstate, source, capture, processing,
                   sessions, faults>>

\* if self.processing_thread: self.processing_thread.join(); return
stop_join_processing ==
    /\ ui.pc = "join_processing"
    /\ processing_thread # None => ~ProcessingAlive(processing_thread)
    /\ ui' = [ui EXCEPT !.pc = ui.ret, !.ret = "idle"]
    /\ UNCHANGED <<config, selection, is_running, handles, last_error, queues,
                   calib, thresholds, vadstate, source, capture, processing,
                   sessions, faults>>

\* AudioRuntime.set_audio_source(audio_source, auto_stop_on_eof), entered:
\* `if self.is_running: self.stop()`
set_audio_source ==
    /\ ui.pc = "idle"
    /\ NextCall = "set_audio_source"
    /\ ui' = [ui EXCEPT !.pc = IF is_running THEN "stop" ELSE "sas_assign",
                        !.ret = IF is_running THEN "sas_assign" ELSE "idle",
                        !.src = program[ui.i].src,
                        !.auto = program[ui.i].auto,
                        !.i = @ + 1]
    /\ UNCHANGED <<config, selection, is_running, handles, last_error, queues,
                   calib, thresholds, vadstate, source, capture, processing,
                   sessions, faults>>

\* the statements of set_audio_source after the stop, in program order
SasOrder == <<"sas_assign", "sas_clear_audio", "sas_clear_processed",
              "sas_clear_energy", "sas_clear_zcr", "sas_clear_display",
              "sas_cal_done", "sas_cal_energy", "sas_cal_zcr",
              "sas_cal_entropy", "idle">>

SasNext(pc) == SasOrder[(CHOOSE i \in 1..(Len(SasOrder) - 1) : SasOrder[i] = pc) + 1]

\* one statement of set_audio_source (the last one returns)
set_audio_source_step ==
    /\ ui.pc \in {SasOrder[i] : i \in 1..(Len(SasOrder) - 1)}
    /\ ui' = [ui EXCEPT !.pc = SasNext(ui.pc),
                        !.src = IF ui.pc = "sas_assign" THEN None ELSE @,
                        !.auto = IF ui.pc = "sas_assign" THEN FALSE ELSE @]
    /\ audio_source' = IF ui.pc = "sas_assign" THEN ui.src ELSE audio_source
    /\ auto_stop_on_eof' = IF ui.pc = "sas_assign" THEN ui.auto ELSE auto_stop_on_eof
    /\ audio_buffer' = IF ui.pc = "sas_clear_audio" THEN << >> ELSE audio_buffer
    /\ processed_data' = IF ui.pc = "sas_clear_processed" THEN << >> ELSE processed_data
    /\ energy_history' = IF ui.pc = "sas_clear_energy" THEN << >> ELSE energy_history
    /\ zcr_history' = IF ui.pc = "sas_clear_zcr" THEN << >> ELSE zcr_history
    /\ audio_display_buffer' =
           IF ui.pc = "sas_clear_display" THEN << >> ELSE audio_display_buffer
    /\ calibration_done' = IF ui.pc = "sas_cal_done" THEN FALSE ELSE calibration_done
    /\ cal_energy' = IF ui.pc = "sas_cal_energy" THEN << >> ELSE cal_energy
    /\ cal_zcr' = IF ui.pc = "sas_cal_zcr" THEN << >> ELSE cal_zcr
    /\ cal_entropy' = IF ui.pc = "sas_cal_entropy" THEN << >> ELSE cal_entropy
    /\ UNCHANGED <<config, is_running, handles, last_error, thresholds,
                   vadstate, source, capture, processing, sessions, faults>>

\* Python's seq[-n:] (n = 0 gives the whole sequence)
LastN(seq, n) ==
    IF n <= 0 \/ n >= Len(seq) THEN seq
    ELSE SubSeq(seq, Len(seq) - n + 1, Len(seq))

\* AudioRuntime.get_recent_processed: the records behind the three arrays
get_recent_processed(pd, max_display) ==
    IF Len(pd) = 0 THEN << >>
    ELSE IF Len(pd) > max_display THEN LastN(pd, max_display)
    ELSE pd

\* AudioRuntime.save_data, the call of get_recent_processed (under the lock)
save_data ==
    /\ ui.pc = "idle"
    /\ NextCall = "save_data"
    /\ ui' = [ui EXCEPT !.pc = "save_second", !.i = @ + 1,
                        !.snap = get_recent_processed(processed_data,
                                                      PROCESSED_DATA_BUFFER_SIZE)]
    /\ UNCHANGED <<config, selection, is_running, handles, last_error, queues,
                   calib, thresholds, vadstate, source, capture, processing,
                   sessions, faults>>

\* the records behind spec_entropies and vads_adaptive in save_data
SaveSecond(pd) ==
    IF Len(pd) > PROCESSED_DATA_BUFFER_SIZE
    THEN LastN(pd, PROCESSED_DATA_BUFFER_SIZE)
    ELSE pd

\* AudioRuntime.save_data, the second `with self.lock:` block and np.savez
save_data_second ==
    /\ ui.pc = "save_second"
    /\ ui' = [ui EXCEPT !.pc = "idle", !.snap = << >>]
    /\ UNCHANGED <<config, selection, is_running, handles, last_error, queues,
                   calib, thresholds, vadstate, source, capture, processing,
                   sessions, faults>>

\* the arrays np.savez writes when save_data_second is taken
SavedEnergies == [i \in 1..Len(ui.snap) |-> ui.snap[i].energy]
SavedZcrs == [i \in 1..Len(ui.snap) |-> ui.snap[i].zcr]
SavedVads == [i \in 1..Len(ui.snap) |-> ui.snap[i].vad]
SavedSpecEntropy ==
    [i \in 1..Len(SaveSecond(processed_data)) |-> SaveSecond(processed_data)[i].spec_entropy]
SavedVadsAdaptive ==
    [i \in 1..Len(SaveSecond(processed_data)) |-> SaveSecond(processed_data)[i].vad_adaptive]

\* --------------------------------------------------- the ingestion thread
\* A chunk is the run lo..hi of sample positions of source src.
Chunk(s, lo, hi) == [src |-> s, lo |-> lo, hi |-> hi]
ChunkLen(c) == IF c.hi >= c.lo THEN c.hi - c.lo + 1 ELSE 0
ChunkSamples(c) == [i \in 1..ChunkLen(c) |-> <<c.src, c.lo + i - 1>>]

\* FileAudioSource.open
FileOpen(src) == [pcm |-> TRUE, pos |-> 0, exhausted |-> FALSE]
\* FileAudioSource.open when decoding raises
FileOpenFailed(src) == [src EXCEPT !.pcm = FALSE, !.exhausted = FALSE]
\* FileAudioSource.close
FileClose(src) == [pcm |-> FALSE, pos |-> 0, exhausted |-> TRUE]
\* FileAudioSource.read: the chunk returned and the source afterwards
FileReadEnd(s, src, n) == Min(src.pos + n, Len(data.pcm[s]))
FileReadChunk(s, src, n) ==
    IF src.pcm THEN Chunk(s, src.pos + 1, FileReadEnd(s, src, n))
    ELSE Chunk(s, 1, 0)
FileReadAfter(s, src, n) ==
    IF src.pcm
    THEN [src EXCEPT !.pos = FileReadEnd(s, src, n),
                     !.exhausted = IF FileReadEnd(s, src, n) >= Len(data.pcm[s])
                                   THEN TRUE ELSE src.exhausted]
    ELSE src

\* _audio_capture_thread: self.audio_source.open(), and the except clause
capture_open(k) ==
    /\ capture[k].pc = "open"
    /\ \/ /\ source' = [source EXCEPT ![audio_source] = FileOpen(@)]
          /\ capture' = [capture EXCEPT ![k].pc = "loop",
                                        ![k].stream_opened = TRUE,
                                        ![k].opened = audio_source]
          /\ UNCHANGED <<last_error, faults>>
       \/ /\ faults < MaxFaults
          /\ faults' = faults + 1
          /\ source' = [source EXCEPT ![audio_source] = FileOpenFailed(@)]
          /\ last_error' = [op |-> "open", src |-> audio_source]
          /\ capture' = [capture EXCEPT ![k].pc = "finally"]
    /\ UNCHANGED <<config, selection, is_running, handles, queues, calib,
                   thresholds, vadstate, processing, ui, sessions>>

\* _audio_capture_thread: `while self.is_running:`
capture_loop(k) ==
    /\ capture[k].pc = "loop"
    /\ capture' = [capture EXCEPT ![k].pc = IF is_running THEN "read" ELSE "finally"]
    /\ UNCHANGED <<config, selection, is_running, handles, last_error, queues,
                   calib, thresholds, vadstate, source, processing, ui,
                   sessions, faults>>

\* the EOF test without the auto_stop_on_eof flag
EofStopsAlways(src) == src.exhausted

\* _audio_capture_thread: `if exhausted and self.auto_stop_on_eof:`, on the
\* source as the read left it
EofStops(src) == src.exhausted /\ auto_stop_on_eof

\* capture_read with an except clause that swallows the exception
capture_read_silent(k) ==
    /\ capture[k].pc = "read"
    /\ \/ LET s == audio_source
              chunk == FileReadChunk(s, source[s], CHUNK_SIZE)
              after == FileReadAfter(s, source[s], CHUNK_SIZE)
          IN /\ source' = [source EXCEPT ![s] = after]
             /\ IF ChunkLen(chunk) = 0
                THEN IF EofStops(after)
                     THEN /\ is_running' = FALSE
                          /\ capture' = [capture EXCEPT ![k].pc = "finally"]
                     ELSE /\ UNCHANGED is_running
                          /\ capture' = [capture EXCEPT ![k].pc = "loop"]
                ELSE /\ UNCHANGED is_running
                     /\ capture' = [capture EXCEPT ![k].pc = "push",
                                                   ![k].audio_data = chunk]
             /\ UNCHANGED <<last_error, faults>>
       \/ /\ faults < MaxFaults
          /\ faults' = faults + 1
          /\ UNCHANGED last_error
          /\ capture' = [capture EXCEPT ![k].pc = "finally"]
          /\ UNCHANGED <<source, is_running>>
    /\ UNCHANGED <<config, selection, handles, queues, calib, thresholds,
                   vadstate, processing, ui, sessions>>

\* _audio_capture_thread: self.audio_source.read(self.chunk), the EOF test
\* and the except clause
capture_read(k) ==
    /\ capture[k].pc = "read"
    /\ \/ LET s == audio_source
              chunk == FileReadChunk(s, source[s], CHUNK_SIZE)
              after == FileReadAfter(s, source[s], CHUNK_SIZE)
          IN /\ source' = [source EXCEPT ![s] = after]
             /\ IF ChunkLen(chunk) = 0
                THEN IF EofStops(after)
                     THEN /\ is_running' = FALSE
                          /\ capture' = [capture EXCEPT ![k].pc = "finally"]
                     ELSE /\ UNCHANGED is_running
                          /\ capture' = [capture EXCEPT ![k].pc = "loop"]
                ELSE /\ UNCHANGED is_running
                     /\ capture' = [capture EXCEPT ![k].pc = "push",
                                                   ![k].audio_data = chunk]
             /\ UNCHANGED <<last_error, faults>>
       \/ /\ faults < MaxFaults
          /\ faults' = faults + 1
          /\ last_error' = [op |-> "read", src |-> audio_source]
          /\ capture' = [capture EXCEPT ![k].pc = "finally"]
          /\ UNCHANGED <<source, is_running>>
    /\ UNCHANGED <<config, selection, handles, queues, calib, thresholds,
                   vadstate, processing, ui, sessions>>

\* _audio_capture_thread: the `with self.lock:` block that pushes the chunk
capture_push(k) ==
    /\ capture[k].pc = "push"
    /\ audio_buffer' = DequeAppend(audio_buffer, capture[k].audio_data, AUDIO_BUFFER_SIZE)
    /\ audio_display_buffer' =
           DequeAppend(audio_display_buffer, capture[k].audio_data, display_chunks)
    /\ capture' = [capture EXCEPT ![k].pc = "loop", ![k].audio_data = << >>]
    /\ UNCHANGED <<config, selection, is_running, handles, last_error,
                   processed_data, energy_history, zcr_history, calib,
                   thresholds, vadstate, source, processing, ui, sessions,
                   faults>>

\* _audio_capture_thread: the finally clause
capture_finally(k) ==
    /\ capture[k].pc = "finally"
    /\ IF capture[k].stream_opened
       THEN /\ source' = [source EXCEPT ![audio_source] = FileClose(@)]
            /\ capture' = [capture EXCEPT ![k].pc = "done",
                                          ![k].closed = audio_source]
       ELSE /\ UNCHANGED source
            /\ capture' = [capture EXCEPT ![k].pc = "done"]
    /\ UNCHANGED <<config, selection, is_running, handles, last_error, queues,
                   calib, thresholds, vadstate, processing, ui, sessions,
                   faults>>

\* -------------------------------------------------- the processing thread
SampleValue(ref) == data.pcm[ref[1]][ref[2]]

\* SignalProcessing.calculate_spectral_entropy of the frame that starts at ref
SpectralEntropy(ref) == data.entropy[ref[1]][ref[2]]

\* a frame of hop_size samples
FrameOfHop(overlap) == SubSeq(overlap, 1, HOP_SIZE)

\* overlap_buffer[: self.frame_size]
FrameOf(overlap) == SubSeq(overlap, 1, FRAME_SIZE)
AdvanceOverlapStuck(overlap) == overlap

\* overlap_buffer[self.hop_size :]
AdvanceOverlap(overlap) == SubSeq(overlap, HOP_SIZE + 1, Len(overlap))

calibration_frames_target == CALIBRATION_FRAMES

\* the calibration block of _signal_processing_thread: the calibration
\* buffers, the flag and the thresholds after a frame with the given
\* features, for a given value of self._calibration_frames_target
CalibrateTarget(target, energy, zcr, entropy) ==
    IF auto_calibrate /\ ~calibration_done
    THEN LET ce == ListAppend(cal_energy, energy)
             cz == ListAppend(cal_zcr, zcr)
             cs == ListAppend(cal_entropy, entropy)
             fire == target > 0 /\ Len(ce) >= target
         IN [cal_energy |-> ce, cal_zcr |-> cz, cal_entropy |-> cs,
             done |-> fire,
             energy_threshold |->
                 IF fire THEN Max(100 * MIN_ENERGY_THRESHOLD,
                                  Percentile100(ce, AUTO_ENERGY_PERCENTILE))
                 ELSE energy_threshold,
             zcr_threshold |->
                 IF fire THEN Clip(Percentile100(cz, AUTO_ZCR_PERCENTILE),
                                   0, 50 * FRAME_SIZE)
                 ELSE zcr_threshold,
             spec_entropy_voice_max |->
                 IF fire THEN Clip(Percentile100(cs, AUTO_ENTROPY_PERCENTILE),
                                   0, 10000)
                 ELSE spec_entropy_voice_max]
    ELSE [cal_energy |-> cal_energy, cal_zcr |-> cal_zcr,
          cal_entropy |-> cal_entropy, done |-> calibration_done,
          energy_threshold |-> energy_threshold,
          zcr_threshold |-> zcr_threshold,
          spec_entropy_voice_max |-> spec_entropy_voice_max]

\* the calibration block with the target AudioRuntime.__init__ read
Calibrate(energy, zcr, entropy) ==
    CalibrateTarget(calibration_frames_target, energy, zcr, entropy)

\* the fixed gates with `and` between all three
FixedDecisionAllGates(energy, zcr, entropy, th) ==
    /\ 100 * energy > th.energy_threshold
    /\ 100 * zcr < th.zcr_threshold
    /\ 100 * entropy < th.spec_entropy_voice_max

\* energy_gate and (zcr_gate or entropy_gate), against the given thresholds
FixedDecision(energy, zcr, entropy, th) ==
    /\ 100 * energy > th.energy_threshold
    /\ \/ 100 * zcr < th.zcr_threshold
       \/ 100 * entropy < th.spec_entropy_voice_max

\* the gating of one frame: the fixed decision, the adaptive decision and
\* vad_initial, which merges them when use_adaptive (Config.USE_ADAPTIVE_VAD)
Gate(use_adaptive, energy, zcr, entropy, th, eh, zh) ==
    LET fixed == FixedDecision(energy, zcr, entropy, th)
        vad_adaptive == adaptive_voice_activity_detection(energy, zcr, eh, zh)
    IN [fixed |-> fixed, vad_adaptive |-> vad_adaptive,
        vad_initial |-> IF use_adaptive THEN fixed \/ vad_adaptive ELSE fixed]

\* the block with a voice_run that a raw-silent frame leaves as it is
SmoothAttackKeepsRun(attack_on, vad_initial, hold, srun, vrun) ==
    LET attack == IF attack_on = 0 THEN 1 ELSE attack_on
        vr == IF vad_initial THEN vrun + 1 ELSE vrun
    IN IF vad_initial /\ vr >= attack
       THEN [vad |-> 1, hold |-> Max(hold, VAD_HANGOVER_ON), silence_run |-> 0,
             voice_run |-> vr]
       ELSE IF hold > 0
            THEN [vad |-> 1, hold |-> hold - 1, silence_run |-> 0, voice_run |-> vr]
            ELSE [vad |-> 0, hold |-> hold, silence_run |-> srun + 1, voice_run |-> vr]

\* the attack/hangover/release block of _signal_processing_thread for a
\* given value of Config.VAD_ATTACK_ON (`int(... or 1)` turns 0 into 1)
SmoothAttack(attack_on, vad_initial, hold, srun, vrun) ==
    LET attack == IF attack_on = 0 THEN 1 ELSE attack_on
        vr == IF vad_initial THEN vrun + 1 ELSE 0
    IN IF vad_initial /\ vr >= attack
       THEN [vad |-> 1, hold |-> Max(hold, VAD_HANGOVER_ON), silence_run |-> 0,
             voice_run |-> vr]
       ELSE IF hold > 0
            THEN [vad |-> 1, hold |-> hold - 1, silence_run |-> 0, voice_run |-> vr]
            ELSE [vad |-> 0, hold |-> hold, silence_run |-> srun + 1, voice_run |-> vr]

\* the same block with the release rule of analyze_file.py in its last branch
SmoothWithRelease(vad_initial, hold, srun, vrun) ==
    LET attack == IF VAD_ATTACK_ON = 0 THEN 1 ELSE VAD_ATTACK_ON
        vr == IF vad_initial THEN vrun + 1 ELSE 0
    IN IF vad_initial /\ vr >= attack
       THEN [vad |-> 1, hold |-> Max(hold, VAD_HANGOVER_ON), silence_run |-> 0,
             voice_run |-> vr]
       ELSE IF hold > 0
            THEN [vad |-> 1, hold |-> hold - 1, silence_run |-> 0, voice_run |-> vr]
            ELSE [vad |-> IF srun + 1 >= VAD_RELEASE_OFF THEN 0 ELSE 1,
                  hold |-> hold, silence_run |-> srun + 1, voice_run |-> vr]

\* the attack/hangover/release block of _signal_processing_thread, with the
\* configured VAD_ATTACK_ON
Smooth(vad_initial, hold, srun, vrun) ==
    SmoothAttack(VAD_ATTACK_ON, vad_initial, hold, srun, vrun)

\* the loop head as `while True:`
processing_loop_forever(k) ==
    /\ processing[k].pc = "loop"
    /\ processing' = [processing EXCEPT ![k].pc = "check"]
    /\ UNCHANGED <<config, selection, is_running, handles, last_error, queues,
                   calib, thresholds, vadstate, source, capture, ui, sessions,
                   faults>>

\* _signal_processing_thread: `while self.is_running:`
processing_loop(k) ==
    /\ processing[k].pc = "loop"
    /\ processing' = [processing EXCEPT ![k] =
                         IF is_running THEN [@ EXCEPT !.pc = "check"]
                         ELSE [NoProcessing EXCEPT !.pc = "done"]]
    /\ UNCHANGED <<config, selection, is_running, handles, last_error, queues,
                   calib, thresholds, vadstate, source, capture, ui, sessions,
                   faults>>

\* _signal_processing_thread: `if len(self.audio_buffer) == 0:` (no lock)
processing_check(k) ==
    /\ processing[k].pc = "check"
    /\ processing' = [processing EXCEPT ![k].pc =
                         IF Len(audio_buffer) = 0 THEN "loop" ELSE "pop"]
    /\ UNCHANGED <<config, selection, is_running, handles, last_error, queues,
                   calib, thresholds, vadstate, source, capture, ui, sessions,
                   faults>>

\* _signal_processing_thread: popleft under the lock and the concatenation;
\* popleft on an empty deque raises IndexError, which ends the thread
ProcessPop(k) ==
    /\ processing[k].pc = "pop"
    /\ IF Len(audio_buffer) = 0
       THEN /\ processing' = [processing EXCEPT ![k] =
                                    [NoProcessing EXCEPT !.pc = "crashed"]]
            /\ UNCHANGED audio_buffer
       ELSE /\ audio_buffer' = Tail(audio_buffer)
            /\ processing' = [processing EXCEPT
                   ![k].pc = "frame",
                   ![k].overlap_buffer = @ \o ChunkSamples(Head(audio_buffer))]
    /\ UNCHANGED <<data, program, auto_calibrate, selection, is_running, handles,
                   last_error,
                   audio_display_buffer, processed_data, energy_history,
                   zcr_history, calib, thresholds, vadstate, source, capture,
                   ui, sessions, faults>>

processing_pop(k) == ProcessPop(k) /\ UNCHANGED trial

\* _signal_processing_thread: `while len(overlap_buffer) >= self.frame_size:`
\* and the body up to the record: features, calibration, gating, smoothing
ProcessFrame(k) ==
    /\ processing[k].pc = "frame"
    /\ IF Len(processing[k].overlap_buffer) >= FRAME_SIZE
       THEN LET refs == FrameOf(processing[k].overlap_buffer)
                entropy == SpectralEntropy(refs[1])
                frame == [i \in 1..Len(refs) |-> SampleValue(refs[i])]
                windowed_frame == Windowed(frame)
                energy == calculate_short_time_energy(windowed_frame)
                zcr == calculate_zero_crossing_rate(windowed_frame)
                cal == Calibrate(energy, zcr, entropy)
                gate == Gate(USE_ADAPTIVE_VAD, energy, zcr, entropy, cal,
                             energy_history, zcr_history)
                sm == Smooth(gate.vad_initial, vad_hold, silence_run, voice_run)
            IN /\ cal_energy' = cal.cal_energy
               /\ cal_zcr' = cal.cal_zcr
               /\ cal_entropy' = cal.cal_entropy
               /\ calibration_done' = cal.done
               /\ energy_threshold' = cal.energy_threshold
               /\ zcr_threshold' = cal.zcr_threshold
               /\ spec_entropy_voice_max' = cal.spec_entropy_voice_max
               /\ vad_hold' = sm.hold
               /\ silence_run' = sm.silence_run
               /\ voice_run' = sm.voice_run
               /\ processing' = [processing EXCEPT
                      ![k].pc = "append",
                      ![k].overlap_buffer = AdvanceOverlap(@),
                      ![k].rec = [frame |-> refs[1], energy |-> energy,
                                  zcr |-> zcr, vad |-> sm.vad,
                                  spec_entropy |-> entropy,
                                  vad_adaptive |-> IF gate.vad_adaptive THEN 1 ELSE 0]]
       ELSE /\ processing' = [processing EXCEPT ![k].pc = "loop"]
            /\ UNCHANGED <<calib, thresholds, vadstate>>
    /\ UNCHANGED <<data, program, auto_calibrate, selection, is_running, handles,
                   last_error, queues, source, capture, ui, sessions, faults>>

processing_frame(k) == ProcessFrame(k) /\ UNCHANGED trial

\* _signal_processing_thread: the `with self.lock:` block that appends
ProcessAppend(k) ==
    /\ processing[k].pc = "append"
    /\ energy_history' = DequeAppend(energy_history, processing[k].rec.energy, HISTORY_MAXLEN)
    /\ zcr_history' = DequeAppend(zcr_history, processing[k].rec.zcr, HISTORY_MAXLEN)
    /\ processed_data' = DequeAppend(processed_data, processing[k].rec,
                                     PROCESSED_DATA_BUFFER_SIZE)
    /\ processing' = [processing EXCEPT ![k].pc = "frame", ![k].rec = << >>]
    /\ UNCHANGED <<data, program, auto_calibrate, selection, is_running, handles,
                   last_error,
                   audio_buffer, audio_display_buffer, calib, thresholds,
                   vadstate, source, capture, ui, sessions, faults>>

processing_append(k) == ProcessAppend(k) /\ UNCHANGED trial

\* ------------------------------------------------------------ specification
Next ==
    \/ start
    \/ call_stop
    \/ stop
    \/ stop_join_audio
    \/ stop_join_processing
    \/ set_audio_source
    \/ set_audio_source_step
    \/ save_data
    \/ save_data_second
    \/ \E k \in Sessions : capture_open(k)
    \/ \E k \in Sessions : capture_loop(k)
    \/ \E k \in Sessions : capture_read(k)
    \/ \E k \in Sessions : capture_push(k)
    \/ \E k \in Sessions : capture_finally(k)
    \/ \E k \in Sessions : processing_loop(k)
    \/ \E k \in Sessions : processing_check(k)
    \/ \E k \in Sessions : processing_pop(k)
    \/ \E k \in Sessions : processing_frame(k)
    \/ \E k \in Sessions : processing_append(k)

Spec == Init /\ [][Next]_vars

\* ------------------------------------------ a session nobody stops
\* The caller starts the runtime and makes no further call.  Every thread
\* that can take a step eventually takes one (the threads are daemon threads
\* scheduled by the operating system).
CaptureStep(k) ==
    \/ capture_open(k)
    \/ capture_loop(k)
    \/ capture_read(k)
    \/ capture_push(k)
    \/ capture_finally(k)

ProcessingStep(k) ==
    \/ processing_loop(k)
    \/ processing_check(k)
    \/ processing_pop(k)
    \/ processing_frame(k)
    \/ processing_append(k)

UnattendedInit ==
    InitWith({<<Start>>, <<SetAudioSource(1, TRUE), Start>>}) /\ trial = NoTrial

UnattendedNext ==
    \/ start
    \/ set_audio_source
    \/ set_audio_source_step
    \/ \E k \in Sessions : CaptureStep(k)
    \/ \E k \in Sessions : ProcessingStep(k)

UnattendedSpec ==
    /\ UnattendedInit
    /\ [][UnattendedNext]_vars
    /\ WF_vars(start \/ set_audio_source \/ set_audio_source_step)
    /\ \A k \in Sessions : WF_vars(CaptureStep(k)) /\ WF_vars(ProcessingStep(k))

\* ------------------------------------------ the stream a session consumes
\* One session, with what each processing thread does recorded in trial: the
\* samples of the chunks it popped, the frames it cut and the number of
\* records it appended.
NoStream ==
    [op |-> "stream", consumed |-> [k \in Sessions |-> << >>],
     frames |-> [k \in Sessions |-> << >>], appended |-> [k \in Sessions |-> 0]]

processing_pop_stream(k) ==
    /\ ProcessPop(k)
    /\ trial' = IF processing'[k].pc = "frame"
                THEN [trial EXCEPT !.consumed[k] =
                          @ \o ChunkSamples(Head(audio_buffer))]
                ELSE trial

processing_frame_stream(k) ==
    /\ ProcessFrame(k)
    /\ trial' = IF processing'[k].pc = "append"
                THEN [trial EXCEPT !.frames[k] =
                          Append(@, FrameOf(processing[k].overlap_buffer))]
                ELSE trial

processing_append_stream(k) ==
    /\ ProcessAppend(k)
    /\ trial' = [trial EXCEPT !.appended[k] = @ + 1]

StreamInit ==
    /\ InitWith({<<Start>>, <<SetAudioSource(2, TRUE), Start>>})
    /\ trial = NoStream

StreamNext ==
    \/ start
    \/ set_audio_source
    \/ set_audio_source_step
    \/ \E k \in Sessions : CaptureStep(k)
    \/ \E k \in Sessions : processing_loop(k)
    \/ \E k \in Sessions : processing_check(k)
    \/ \E k \in Sessions : processing_pop_stream(k)
    \/ \E k \in Sessions : processing_frame_stream(k)
    \/ \E k \in Sessions : processing_append_stream(k)

StreamSpec == StreamInit /\ [][StreamNext]_vars

\* ------------------------------------------ a session that overflows
\* The session of StreamSpec on files long enough for a chunk to be evicted
\* from audio_buffer after the processing thread has dequeued an earlier one.
OverflowLen == (AUDIO_BUFFER_SIZE + 2) * CHUNK_SIZE

OverflowInit ==
    /\ InitFrom({<<Start>>, <<SetAudioSource(2, TRUE), Start>>},
                ProfilesOf(OverflowLen))
    /\ trial = NoStream

OverflowSpec == OverflowInit /\ [][StreamNext]_vars

\* ------------------------------------------ a session the caller stops
\* The caller starts the runtime and calls stop() at any later moment.  The
\* caller and every thread that can take a step eventually take one: read()
\* returns, and the operating system schedules the threads.
CancelInit ==
    InitWith({<<Start, Stop>>, <<SetAudioSource(1, TRUE), Start, Stop>>})
        /\ trial = NoTrial

CallerStep ==
    \/ start
    \/ call_stop
    \/ stop
    \/ stop_join_audio
    \/ stop_join_processing
    \/ set_audio_source
    \/ set_audio_source_step

CancelNext ==
    \/ CallerStep
    \/ \E k \in Sessions : CaptureStep(k)
    \/ \E k \in Sessions : ProcessingStep(k)

CancelSpec ==
    /\ CancelInit
    /\ [][CancelNext]_vars
    /\ WF_vars(CallerStep)
    /\ \A k \in Sessions : WF_vars(CaptureStep(k)) /\ WF_vars(ProcessingStep(k))

\* ------------------------------------------- operations applied on their own
\* AudioRuntime.get_recent_processed: the three arrays it returns
RecentArrays(pd, max_display) ==
    LET energies == [i \in 1..Len(pd) |-> pd[i].energy]
        zcrs == [i \in 1..Len(pd) |-> pd[i].zcr]
        vads == [i \in 1..Len(pd) |-> pd[i].vad]
    IN IF Len(pd) = 0
       THEN [energies |-> << >>, zcrs |-> << >>, vads |-> << >>]
       ELSE IF Len(energies) > max_display
            THEN [energies |-> LastN(energies, max_display),
                  zcrs |-> LastN(zcrs, max_display),
                  vads |-> LastN(vads, max_display)]
            ELSE [energies |-> energies, zcrs |-> zcrs, vads |-> vads]

\* np.concatenate(list(self.audio_display_buffer)), as sample positions
RECURSIVE Concatenate(_)
Concatenate(buf) ==
    IF Len(buf) = 0 THEN << >>
    ELSE ChunkSamples(Head(buf)) \o Concatenate(Tail(buf))

get_recent_audio_uncut(buf) == Concatenate(buf)

\* AudioRuntime.get_recent_audio
get_recent_audio(buf) ==
    IF Len(buf) = 0 THEN << >>
    ELSE LET recent_audio == Concatenate(buf)
         IN IF Len(recent_audio) > WAVEFORM_DISPLAY_LENGTH
            THEN LastN(recent_audio, WAVEFORM_DISPLAY_LENGTH)
            ELSE recent_audio

\* the record the processing thread appends for the i-th frame of a stream
TrialRecord(i) ==
    [frame |-> <<1, i>>, energy |-> 100 * i, zcr |-> i % 2, vad |-> i % 2,
     spec_entropy |-> 30, vad_adaptive |-> 0]

\* the contents processed_data can have: a run of consecutive records
TrialProcessedData ==
    { [i \in 1..n |-> TrialRecord(a + i)] : a \in 0..1, n \in 0..TrialRecords }

\* the ways lo..hi can be cut into at most n chunks of 1..TrialChunkLen samples
RECURSIVE ChunkRuns(_, _)
ChunkRuns(lo, n) ==
    IF n = 0 THEN { << >> }
    ELSE { << >> } \cup
         UNION { { <<Chunk(1, lo, lo + len - 1)>> \o rest :
                     rest \in ChunkRuns(lo + len, n - 1) } :
                 len \in 1..TrialChunkLen }

\* the contents audio_display_buffer can have: consecutive chunks of a source
TrialDisplayBuffers == ChunkRuns(1, TrialChunks)

TrialsGetRecentProcessed ==
    [op : {"get_recent_processed"}, pc : {"call"}, pd : TrialProcessedData,
     max_display : 0..(TrialRecords + 1),
     out : {[energies |-> << >>, zcrs |-> << >>, vads |-> << >>]}]

TrialsGetRecentAudio ==
    [op : {"get_recent_audio"}, pc : {"call"}, buf : TrialDisplayBuffers,
     out : {<< >>}]

\* a caller applies get_recent_processed(max_display) to processed_data = pd
call_get_recent_processed ==
    /\ trial.op = "get_recent_processed"
    /\ trial.pc = "call"
    /\ trial' = [trial EXCEPT !.pc = "return",
                              !.out = RecentArrays(trial.pd, trial.max_display)]
    /\ UNCHANGED <<data, program, auto_calibrate, selection, is_running, handles,
                   last_error, queues, calib, thresholds, vadstate, source,
                   capture, processing, ui, sessions, faults>>

\* a caller applies get_recent_audio() to audio_display_buffer = buf
call_get_recent_audio ==
    /\ trial.op = "get_recent_audio"
    /\ trial.pc = "call"
    /\ trial' = [trial EXCEPT !.pc = "return", !.out = get_recent_audio(trial.buf)]
    /\ UNCHANGED <<data, program, auto_calibrate, selection, is_running, handles,
                   last_error, queues, calib, thresholds, vadstate, source,
                   capture, processing, ui, sessions, faults>>

\* the raw decisions of the frames of a run, at most TrialFrames of them
RECURSIVE BoolSeqs(_)
BoolSeqs(n) ==
    IF n = 0 THEN { << >> }
    ELSE { << >> } \cup { <<b>> \o r : b \in BOOLEAN, r \in BoolSeqs(n - 1) }

TrialsSmoothing ==
    [op : {"smoothing"}, pc : {"call"}, raw : BoolSeqs(TrialFrames), out : {<< >>}]

\* the smoothing block of _signal_processing_thread applied to the next raw
\* decision of the run, on the engine's own counters
smooth_frame ==
    /\ trial.op = "smoothing"
    /\ Len(trial.out) < Len(trial.raw)
    /\ LET sm == Smooth(trial.raw[Len(trial.out) + 1], vad_hold, silence_run, voice_run)
       IN /\ vad_hold' = sm.hold
          /\ silence_run' = sm.silence_run
          /\ voice_run' = sm.voice_run
          /\ trial' = [trial EXCEPT
                 !.out = Append(@, sm.vad),
                 !.pc = IF Len(trial.out) + 1 = Len(trial.raw) THEN "return" ELSE "call"]
    /\ UNCHANGED <<data, program, auto_calibrate, selection, is_running, handles,
                   last_error, queues, calib, thresholds, source, capture,
                   processing, ui, sessions, faults>>

\* int(np.ceil(a / b)) for b > 0
CeilDiv(a, b) == -((-a) \div b)

\* the number of frames framing() computes
NumFrames(signal_length, frame_size, hop_size) ==
    1 + CeilDiv(signal_length - frame_size, hop_size)

\* the window framing() multiplies the frames by
FramingWindow(frame_size, window_type) ==
    IF window_type = "hamming" THEN hamming_window(frame_size)
    ELSE rectangular_window(frame_size)

\* framing() with the number of frames rounded down
framing_floor(signal, frame_size, hop_size, window_type) ==
    IF frame_size <= 0 \/ hop_size <= 0 \/ Len(signal) = 0
    THEN [raised |-> FALSE, frames |-> << >>]
    ELSE LET num_frames == 1 + ((Len(signal) - frame_size) \div hop_size)
             w == FramingWindow(frame_size, window_type)
         IN [raised |-> FALSE,
             frames |-> [k \in 1..num_frames |-> [i \in 1..frame_size |->
                           (signal[(k - 1) * hop_size + i] * w[i]) \div 100]]]

\* preprocessing.framing: raised tells that it ended in an exception (np.tile
\* rejects a negative repetition count), frames are its rows otherwise
framing(signal, frame_size, hop_size, window_type) ==
    IF frame_size <= 0 \/ hop_size <= 0 \/ Len(signal) = 0
    THEN [raised |-> FALSE, frames |-> << >>]
    ELSE LET signal_length == Len(signal)
             num_frames == NumFrames(signal_length, frame_size, hop_size)
             pad_length == (num_frames - 1) * hop_size + frame_size
             padded_signal ==
                 signal \o [i \in 1..Max(0, pad_length - signal_length) |-> 0]
             w == FramingWindow(frame_size, window_type)
         IN IF num_frames < 0
            THEN [raised |-> TRUE, frames |-> << >>]
            ELSE [raised |-> FALSE,
                  frames |-> [k \in 1..num_frames |-> [i \in 1..frame_size |->
                      (padded_signal[(k - 1) * hop_size + i] * w[i]) \div 100]]]

\* signals of at most TrialSamples samples: a ramp, its negative, silence
TrialSignals ==
    { [i \in 1..n |-> 100 * i * sgn] : n \in 0..TrialSamples, sgn \in {-1, 0, 1} }

\* hamming_window(1) divides by zero and is not a number: a frame of one
\* sample is taken with the rectangular window only
TrialsFraming ==
    { t \in [op : {"framing"}, pc : {"call"}, signal : TrialSignals,
             frame_size : (-1)..TrialFrameSize, hop_size : (-1)..TrialFrameSize,
             window_type : {"hamming", "rectangular"},
             out : {[raised |-> FALSE, frames |-> << >>]}] :
        ~(t.window_type = "hamming" /\ t.frame_size = 1) }

\* a caller applies framing(signal, frame_size, hop_size, window_type)
call_framing ==
    /\ trial.op = "framing"
    /\ trial.pc = "call"
    /\ trial' = [trial EXCEPT
           !.pc = "return",
           !.out = framing(trial.signal, trial.frame_size, trial.hop_size,
                           trial.window_type)]
    /\ UNCHANGED <<data, program, auto_calibrate, selection, is_running, handles,
                   last_error, queues, calib, thresholds, vadstate, source,
                   capture, processing, ui, sessions, faults>>

\* the features of a frame on both sides of the static thresholds, and the
\* histories the adaptive decision compares them with
TrialsGating ==
    [op : {"gating"}, pc : {"call"}, use_adaptive : BOOLEAN,
     energy : {0, ENERGY_THRESHOLD, ENERGY_THRESHOLD + 1},
     zcr : 0..(FRAME_SIZE - 1),
     entropy : {SPECTRAL_ENTROPY_VOICE_MAX_PCT - 1, SPECTRAL_ENTROPY_VOICE_MAX_PCT,
                SPECTRAL_ENTROPY_VOICE_MAX_PCT + 1},
     eh : {<< >>, <<0>>, <<2 * ENERGY_THRESHOLD>>},
     zh : {<< >>, <<0>>, <<FRAME_SIZE - 1>>},
     out : {[fixed |-> FALSE, vad_adaptive |-> FALSE, vad_initial |-> FALSE]}]

\* the gating block of _signal_processing_thread applied to the features of
\* one frame, against the engine's thresholds
decide_frame ==
    /\ trial.op = "gating"
    /\ trial.pc = "call"
    /\ trial' = [trial EXCEPT
           !.pc = "return",
           !.out = Gate(trial.use_adaptive, trial.energy, trial.zcr, trial.entropy,
                        [energy_threshold |-> energy_threshold,
                         zcr_threshold |-> zcr_threshold,
                         spec_entropy_voice_max |-> spec_entropy_voice_max],
                        trial.eh, trial.zh)]
    /\ UNCHANGED <<data, program, auto_calibrate, selection, is_running, handles,
                   last_error, queues, calib, thresholds, vadstate, source,
                   capture, processing, ui, sessions, faults>>

\* the smoothing block of compute_file_stats (no attack count)
OfflineSmooth(vad_initial, hold, srun) ==
    IF vad_initial
    THEN [vad |-> 1, hold |-> Max(hold, VAD_HANGOVER_ON), silence_run |-> 0]
    ELSE IF hold > 0
         THEN [vad |-> 1, hold |-> hold - 1, silence_run |-> 0]
         ELSE [vad |-> IF srun + 1 >= VAD_RELEASE_OFF THEN 0 ELSE 1,
               hold |-> hold, silence_run |-> srun + 1]

\* the local variables of compute_file_stats before its loop
NoStats ==
    [energy_history |-> << >>, zcr_history |-> << >>, vad_hold |-> 0,
     silence_run |-> 0, energy_threshold |-> StaticEnergyThreshold,
     zcr_threshold |-> StaticZcrThreshold,
     spec_entropy_voice_max |-> StaticEntropyMax,
     cal_energy |-> << >>, cal_zcr |-> << >>, cal_entropy |-> << >>,
     cal_done |-> FALSE, vads |-> << >>]

\* the calibration block of compute_file_stats
OfflineCalibrate(st, energy, zcr, entropy) ==
    IF auto_calibrate /\ ~st.cal_done
    THEN LET ce == ListAppend(st.cal_energy, energy)
             cz == ListAppend(st.cal_zcr, zcr)
             cs == ListAppend(st.cal_entropy, entropy)
             fire == CALIBRATION_FRAMES > 0 /\ Len(ce) >= CALIBRATION_FRAMES
         IN [st EXCEPT
                !.cal_energy = ce, !.cal_zcr = cz, !.cal_entropy = cs,
                !.cal_done = fire,
                !.energy_threshold =
                    IF fire THEN Max(100 * MIN_ENERGY_THRESHOLD,
                                     Percentile100(ce, AUTO_ENERGY_PERCENTILE))
                    ELSE @,
                !.zcr_threshold =
                    IF fire THEN Clip(Percentile100(cz, AUTO_ZCR_PERCENTILE),
                                      0, 50 * FRAME_SIZE)
                    ELSE @,
                !.spec_entropy_voice_max =
                    IF fire THEN Clip(Percentile100(cs, AUTO_ENTROPY_PERCENTILE),
                                      0, 10000)
                    ELSE @]
    ELSE st

\* one pass of the loop of compute_file_stats over a frame of framing()
OfflineFrame(st, frame, entropy) ==
    LET energy == calculate_short_time_energy(frame)
        zcr == calculate_zero_crossing_rate(frame)
        cal == OfflineCalibrate(st, energy, zcr, entropy)
        gate == Gate(USE_ADAPTIVE_VAD, energy, zcr, entropy, cal,
                     st.energy_history, st.zcr_history)
        sm == OfflineSmooth(gate.vad_initial, st.vad_hold, st.silence_run)
    IN [cal EXCEPT
           !.vad_hold = sm.hold,
           !.silence_run = sm.silence_run,
           !.vads = Append(@, sm.vad),
           !.energy_history = DequeAppend(@, energy, OFFLINE_HISTORY_MAXLEN),
           !.zcr_history = DequeAppend(@, zcr, OFFLINE_HISTORY_MAXLEN)]

\* the spectral entropy (percent) of a frame, which the model does not compute
TrialEntropies == {30, 90}

\* compute_file_stats on a file whose decoded PCM is one of the signals
TrialsFileStats ==
    [op : {"compute_file_stats"}, pc : {"call"}, signal : TrialSignals,
     frames : {<< >>}, st : {NoStats},
     out : {[frames |-> 0, voice_frames |-> 0]}]

\* compute_file_stats: the file is read and framed; an exception of
\* framing() ends the call
stats_framing ==
    /\ trial.op = "compute_file_stats"
    /\ trial.pc = "call"
    /\ LET fr == framing(trial.signal, FRAME_SIZE, HOP_SIZE, "hamming")
       IN trial' = [trial EXCEPT !.pc = IF fr.raised THEN "raised" ELSE "frame",
                                 !.frames = fr.frames]
    /\ UNCHANGED <<data, program, auto_calibrate, selection, is_running, handles,
                   last_error, queues, calib, thresholds, vadstate, source,
                   capture, processing, ui, sessions, faults>>

\* compute_file_stats: one pass of `for fr in frames:`
stats_frame ==
    /\ trial.op = "compute_file_stats"
    /\ trial.pc = "frame"
    /\ Len(trial.st.vads) < Len(trial.frames)
    /\ \E entropy \in TrialEntropies :
          trial' = [trial EXCEPT
              !.st = OfflineFrame(@, trial.frames[Len(trial.st.vads) + 1], entropy)]
    /\ UNCHANGED <<data, program, auto_calibrate, selection, is_running, handles,
                   last_error, queues, calib, thresholds, vadstate, source,
                   capture, processing, ui, sessions, faults>>

\* compute_file_stats: the statistics after the loop; voice_ratio is
\* voice_frames / frames, and 0.0 when there is no frame
stats_return ==
    /\ trial.op = "compute_file_stats"
    /\ trial.pc = "frame"
    /\ Len(trial.st.vads) = Len(trial.frames)
    /\ trial' = [trial EXCEPT
           !.pc = "return",
           !.out = [frames |-> Len(trial.st.vads),
                    voice_frames |-> SumSeq(trial.st.vads)]]
    /\ UNCHANGED <<data, program, auto_calibrate, selection, is_running, handles,
                   last_error, queues, calib, thresholds, vadstate, source,
                   capture, processing, ui, sessions, faults>>

\* ---- the feature extractors of SignalProcessing on arrays of any shape ----
\* An array is described by its shape: <<F>> is a 1-D frame of F samples,
\* <<n, F>> a 2-D array of n frames. A result is the shape of what is
\* returned (<< >> is a scalar) and whether it is the zero scalar, an empty
\* array or computed from samples; a call may also raise.

\* arr.size
ArraySize(shape) == IF Len(shape) = 1 THEN shape[1] ELSE shape[1] * shape[2]

\* np.atleast_2d
atleast_2d(shape) == IF Len(shape) = 1 THEN <<1, shape[1]>> ELSE shape

Returned(shape, value) == [raised |-> FALSE, shape |-> shape, value |-> value]

\* IndexError or ValueError leaving the call
Raises == [raised |-> TRUE, shape |-> << >>, value |-> "none"]

\* an array result of the given shape
ArrayResult(shape) ==
    Returned(shape, IF ArraySize(shape) = 0 THEN "empty" ELSE "computed")

\* result[0] of a 2-D result, float(result[0]) of a 1-D one
FirstRow(res) ==
    IF res.raised THEN res
    ELSE IF res.shape[1] = 0 THEN Raises
    ELSE IF Len(res.shape) = 1 THEN Returned(<< >>, res.value)
    ELSE ArrayResult(<<res.shape[2]>>)

\* time_features.calculate_short_time_energy and calculate_zero_crossing_rate:
\* one value per frame, an empty array for an empty input
per_frame_feature(shape) ==
    IF ArraySize(shape) = 0 THEN ArrayResult(<<0>>) ELSE ArrayResult(<<shape[1]>>)

\* SignalProcessing.calculate_short_time_energy
short_time_energy_of(shape) ==
    IF Len(shape) = 1
    THEN Returned(<< >>, IF shape[1] = 0 THEN "zero" ELSE "computed")
    ELSE per_frame_feature(shape)

\* SignalProcessing.calculate_zero_crossing_rate
zero_crossing_rate_of(shape) ==
    IF Len(shape) = 1
    THEN Returned(<< >>, IF shape[1] = 0 THEN "zero" ELSE "computed")
    ELSE per_frame_feature(shape)

\* SignalProcessing.calculate_spectral_entropy
spectral_entropy_of(shape) ==
    LET entropy == per_frame_feature(atleast_2d(shape))
    IN IF Len(shape) = 1 THEN FirstRow(entropy) ELSE entropy

\* frequency_features.compute_mfcc: the DCT of num_filters log energies, cut
\* to its first num_ceps columns
mfcc_matrix(shape, num_filters, num_ceps) ==
    IF ArraySize(shape) = 0 THEN ArrayResult(<<0, num_ceps>>)
    ELSE ArrayResult(<<shape[1], Min(num_ceps, num_filters)>>)

\* mfcc * lift, lift of shape (num_ceps,): numpy broadcasting of the columns
Liftered(res, num_ceps) ==
    LET cols == res.shape[2]
    IN IF cols = num_ceps \/ cols = 1 \/ num_ceps = 1
       THEN ArrayResult(<<res.shape[1], Max(cols, num_ceps)>>)
       ELSE Raises

\* SignalProcessing.compute_mfcc without pre-emphasis; lifter None is 0
compute_mfcc(shape, num_filters, num_ceps, lifter) ==
    LET mfcc == mfcc_matrix(atleast_2d(shape), num_filters, num_ceps)
        lifted == IF lifter > 0 THEN Liftered(mfcc, num_ceps) ELSE mfcc
    IN IF Len(shape) = 1 THEN FirstRow(lifted) ELSE lifted

TrialShapes ==
    {<<f>> : f \in 0..TrialFrameSize}
        \cup {<<n, f>> : n \in 0..TrialRows, f \in 0..TrialFrameSize}

NoFeatures == [energy |-> Raises, zcr |-> Raises, entropy |-> Raises, mfcc |-> Raises]

TrialsExtract ==
    [op : {"extract"}, pc : {"call"}, shape : TrialShapes,
     num_filters : 1..TrialFilters, num_ceps : 1..TrialCeps,
     lifter : -1..TrialLifter, out : {NoFeatures}]

\* the four extractors applied to one array
call_extractors ==
    /\ trial.op = "extract"
    /\ trial.pc = "call"
    /\ trial' = [trial EXCEPT
           !.pc = "return",
           !.out = [energy |-> short_time_energy_of(trial.shape),
                    zcr |-> zero_crossing_rate_of(trial.shape),
                    entropy |-> spectral_entropy_of(trial.shape),
                    mfcc |-> compute_mfcc(trial.shape, trial.num_filters,
                                          trial.num_ceps, trial.lifter)]]
    /\ UNCHANGED <<data, program, auto_calibrate, selection, is_running, handles,
                   last_error, queues, calib, thresholds, vadstate, source,
                   capture, processing, ui, sessions, faults>>

\* frames of 1..TrialFrameSize samples, each positive, negative or exactly 0
RECURSIVE SignFrames(_)
SignFrames(n) ==
    IF n = 0 THEN {<< >>}
    ELSE LET shorter == SignFrames(n - 1)
         IN shorter \cup {Append(f, v) : f \in {g \in shorter : Len(g) = n - 1},
                                        v \in {-100, 0, 100}}

\* time_features.calculate_zero_crossing_rate: the crossings of every frame
\* of a 2-D array, each divided by frames.shape[1]
zero_crossing_rates(frames) ==
    IF Len(frames) = 0 \/ Len(frames[1]) = 0 THEN << >>
    ELSE [r \in 1..Len(frames) |-> calculate_zero_crossing_rate(frames[r])]

TrialsZcr ==
    [op : {"zcr"}, pc : {"call"}, ndim : {1, 2},
     frame : SignFrames(TrialFrameSize) \ {<< >>}, out : {<< >>}]

\* calculate_zero_crossing_rate applied to one frame, passed as a 1-D array
\* or as the only row of a 2-D array; out holds the crossings per frame, in
\* units of 1 / Len(frame)
call_zero_crossing_rate ==
    /\ trial.op = "zcr"
    /\ trial.pc = "call"
    /\ trial' = [trial EXCEPT
           !.pc = "return",
           !.out = IF trial.ndim = 1
                   THEN <<calculate_zero_crossing_rate(trial.frame)>>
                   ELSE zero_crossing_rates(<<trial.frame>>)]
    /\ UNCHANGED <<data, program, auto_calibrate, selection, is_running, handles,
                   last_error, queues, calib, thresholds, vadstate, source,
                   capture, processing, ui, sessions, faults>>

TrialsAttack ==
    [op : {"attack"}, pc : {"call"}, attack : 1..TrialAttack,
     raw : BoolSeqs(TrialFrames), out : {<< >>}]

\* smooth_frame_attack with a confirmed voice frame adding VAD_HANGOVER_ON to
\* the hold counter
smooth_frame_attack_adding ==
    /\ trial.op = "attack"
    /\ Len(trial.out) < Len(trial.raw)
    /\ LET sm == SmoothAttack(trial.attack, trial.raw[Len(trial.out) + 1],
                              vad_hold, silence_run, voice_run)
       IN /\ vad_hold' = IF trial.raw[Len(trial.out) + 1] /\ sm.voice_run >= trial.attack
                         THEN vad_hold + VAD_HANGOVER_ON
                         ELSE sm.hold
          /\ silence_run' = sm.silence_run
          /\ voice_run' = sm.voice_run
          /\ trial' = [trial EXCEPT
                 !.out = Append(@, sm.vad),
                 !.pc = IF Len(trial.out) + 1 = Len(trial.raw) THEN "return" ELSE "call"]
    /\ UNCHANGED <<data, program, auto_calibrate, selection, is_running, handles,
                   last_error, queues, calib, thresholds, source, capture,
                   processing, ui, sessions, faults>>

\* the smoothing block applied to the next raw decision of the run, on the
\* engine's own counters, with Config.VAD_ATTACK_ON set to trial.attack
smooth_frame_attack ==
    /\ trial.op = "attack"
    /\ Len(trial.out) < Len(trial.raw)
    /\ LET sm == SmoothAttack(trial.attack, trial.raw[Len(trial.out) + 1],
                              vad_hold, silence_run, voice_run)
       IN /\ vad_hold' = sm.hold
          /\ silence_run' = sm.silence_run
          /\ voice_run' = sm.voice_run
          /\ trial' = [trial EXCEPT
                 !.out = Append(@, sm.vad),
                 !.pc = IF Len(trial.out) + 1 = Len(trial.raw) THEN "return" ELSE "call"]
    /\ UNCHANGED <<data, program, auto_calibrate, selection, is_running, handles,
                   last_error, queues, calib, thresholds, source, capture,
                   processing, ui, sessions, faults>>

\* features of a frame the calibration is applied to: energy, zero
\* crossings and spectral entropy
TrialFeatures == {<<0, 0, 30>>, <<40000, 1, 90>>}

TrialsCalibration ==
    [op : {"calibration"}, pc : {"call"}, target : 0..TrialTarget, frames : {0}]

\* the calibration block applied to the next frame of a session, on the
\* engine's own buffers, flag and thresholds, with
\* self._calibration_frames_target set to trial.target
calibrate_frame ==
    /\ trial.op = "calibration"
    /\ trial.frames < TrialCalFrames
    /\ \E f \in TrialFeatures :
           LET cal == CalibrateTarget(trial.target, f[1], f[2], f[3])
           IN /\ cal_energy' = cal.cal_energy
              /\ cal_zcr' = cal.cal_zcr
              /\ cal_entropy' = cal.cal_entropy
              /\ calibration_done' = cal.done
              /\ energy_threshold' = cal.energy_threshold
              /\ zcr_threshold' = cal.zcr_threshold
              /\ spec_entropy_voice_max' = cal.spec_entropy_voice_max
    /\ trial' = [trial EXCEPT
           !.frames = @ + 1,
           !.pc = IF trial.frames + 1 = TrialCalFrames THEN "return" ELSE "call"]
    /\ UNCHANGED <<data, program, auto_calibrate, selection, is_running, handles,
                   last_error, queues, vadstate, source, capture, processing,
                   ui, sessions, faults>>

FunctionInit ==
    /\ InitWith({<< >>})
    /\ \/ trial \in TrialsGetRecentProcessed
       \/ trial \in TrialsGetRecentAudio
       \/ trial \in TrialsSmoothing
       \/ trial \in TrialsFraming
       \/ trial \in TrialsGating
       \/ trial \in TrialsFileStats
       \/ trial \in TrialsExtract
       \/ trial \in TrialsZcr
       \/ trial \in TrialsAttack
       \/ trial \in TrialsCalibration

FunctionNext ==
    \/ call_get_recent_processed
    \/ call_get_recent_audio
    \/ smooth_frame
    \/ call_framing
    \/ decide_frame
    \/ stats_framing
    \/ stats_frame
    \/ stats_return
    \/ call_extractors
    \/ call_zero_crossing_rate
    \/ smooth_frame_attack
    \/ calibrate_frame

FunctionSpec == FunctionInit /\ [][FunctionNext]_vars

\* ------------------------------------------------- sessions with a record
\* A session is stopped and the next one started on the same source; trial
\* records, for each processing thread, the features of the frames it has
\* decided so far.
NoFramesSeen == [op |-> "sessions", seen |-> [k \in Sessions |-> << >>]]

\* the step of processing_frame, with the features of a decided frame recorded
processing_frame_seen(k) ==
    /\ ProcessFrame(k)
    /\ trial' = IF processing'[k].pc = "append"
                THEN [trial EXCEPT !.seen[k] =
                          Append(@, [energy |-> processing'[k].rec.energy,
                                     zcr |-> processing'[k].rec.zcr,
                                     spec_entropy |-> processing'[k].rec.spec_entropy])]
                ELSE trial

RestartInit ==
    /\ InitWith({<<Start, Stop, Start>>, <<SetAudioSource(2, TRUE), Start>>})
    /\ trial = NoFramesSeen

RestartNext ==
    \/ start
    \/ call_stop
    \/ stop
    \/ stop_join_audio
    \/ stop_join_processing
    \/ set_audio_source
    \/ set_audio_source_step
    \/ \E k \in Sessions : CaptureStep(k)
    \/ \E k \in Sessions : processing_loop(k)
    \/ \E k \in Sessions : processing_check(k)
    \/ \E k \in Sessions : processing_pop(k)
    \/ \E k \in Sessions : processing_frame_seen(k)
    \/ \E k \in Sessions : processing_append(k)

RestartSpec == RestartInit /\ [][RestartNext]_vars

\* One session observed by snapshot calls: the caller starts a session on a
\* source and calls save_data while the two threads run.
SnapshotInit ==
    /\ InitWith({<<Start, SaveData, SaveData>>,
                 <<SetAudioSource(2, TRUE), Start, SaveData>>})
    /\ trial = NoTrial

SnapshotNext ==
    \/ start
    \/ set_audio_source
    \/ set_audio_source_step
    \/ save_data
    \/ save_data_second
    \/ \E k \in Sessions : CaptureStep(k)
    \/ \E k \in Sessions : ProcessingStep(k)

SnapshotSpec == SnapshotInit /\ [][SnapshotNext]_vars

\* ------------------------------------------------------------------ claims
\* the threads self.audio_thread and self.processing_thread have exited
ThreadsExited ==
    /\ audio_thread # None => ~CaptureAlive(audio_thread)
    /\ processing_thread # None => ~ProcessingAlive(processing_thread)

\* a step in which AudioRuntime.stop returns
StopReturns ==
    /\ ui.pc \in {"stop", "join_processing"}
    /\ ui'.pc \notin {"stop", "join_audio", "join_processing"}

\* a step in which AudioRuntime.start is executed
StartStep == ui.pc = "idle" /\ NextCall = "start" /\ ui'.i = ui.i + 1

\* a step in which AudioRuntime.set_audio_source returns
SasReturns == ui.pc = "sas_cal_entropy" /\ ui'.pc = "idle"

\* a step in which open() or read() raises
SourceRaises == faults' = faults + 1

AliveCapture == {k \in Sessions : CaptureAlive(k)}
AliveProcessing == {k \in Sessions : ProcessingAlive(k)}

\* C1: when a call of stop() returns, neither the ingestion thread nor the
\* processing thread of the runtime is alive.
C1_StopJoinsBothThreads == [][StopReturns => ThreadsExited']_vars

\* C2: start() while running creates no thread and leaves the thread handles
\* and all queues unchanged; start() while not running sets is_running and
\* starts exactly one ingestion thread and one processing thread.
C2_StartIdempotent ==
    [][StartStep =>
          IF is_running
          THEN UNCHANGED <<is_running, handles, queues, capture, processing, sessions>>
          ELSE /\ is_running'
               /\ \E k \in Sessions \ (AliveCapture \cup AliveProcessing) :
                     /\ AliveCapture' = AliveCapture \cup {k}
                     /\ AliveProcessing' = AliveProcessing \cup {k}
                     /\ audio_thread' = k
                     /\ processing_thread' = k
               /\ UNCHANGED queues]_vars

\* start() was called while the runtime was running
C2_Witness ==
    /\ ui.i = 3
    /\ program[1].op = "start"
    /\ program[2].op = "start"
    /\ is_running
    /\ sessions = 1
    /\ AliveCapture = {1}
    /\ AliveProcessing = {1}

\* C3: when set_audio_source() returns, the five queues and the three
\* calibration buffers are empty and _calibration_done is false.
C3_ReplacementResetsQueues ==
    [][SasReturns =>
          /\ audio_buffer' = << >>
          /\ audio_display_buffer' = << >>
          /\ processed_data' = << >>
          /\ energy_history' = << >>
          /\ zcr_history' = << >>
          /\ cal_energy' = << >>
          /\ cal_zcr' = << >>
          /\ cal_entropy' = << >>
          /\ ~calibration_done']_vars

\* C4: when set_audio_source() returns, _vad_hold, _silence_run and
\* _voice_run are zero.
C4_ReplacementResetsVad ==
    [][SasReturns => vad_hold' = 0 /\ silence_run' = 0 /\ voice_run' = 0]_vars

\* C5: a start() that follows set_audio_source() begins the new session with
\* the three thresholds at their statically configured values.
C5_ThresholdsDoNotPersist ==
    [][(StartStep /\ ~is_running /\ PrevCall = "set_audio_source") =>
          /\ energy_threshold' = StaticEnergyThreshold
          /\ zcr_threshold' = StaticZcrThreshold
          /\ spec_entropy_voice_max' = StaticEntropyMax]_vars

\* C6: the arrays save_data() writes have equal length and index i of each
\* comes from the same feature record.
C6_SavedArraysAligned ==
    ui.pc = "save_second" =>
        /\ Len(SavedEnergies) = Len(SavedZcrs)
        /\ Len(SavedEnergies) = Len(SavedVads)
        /\ Len(SavedEnergies) = Len(SavedSpecEntropy)
        /\ Len(SavedEnergies) = Len(SavedVadsAdaptive)
        /\ \A i \in 1..Len(ui.snap) :
               ui.snap[i].frame = SaveSecond(processed_data)[i].frame

\* C7: if open() or read() raised in the ingestion thread, then eventually
\* is_running is false and no processing thread is alive.
C7_SourceErrorEndsSession ==
    (last_error # NoError) ~> (~is_running /\ AliveProcessing = {})

\* C8: when open() or read() raises, the ingestion thread records the
\* exception in last_error, pushes nothing to the queues and goes to its
\* finally clause, from which it exits.
C8_SourceErrorRecorded ==
    [][/\ SourceRaises =>
             /\ last_error' # NoError
             /\ last_error'.src = audio_source
             /\ UNCHANGED queues
             /\ \E k \in Sessions :
                   /\ capture[k].pc \in {"open", "read"}
                   /\ capture'[k].pc = "finally"
                   /\ \A j \in Sessions \ {k} : capture'[j] = capture[j]
       /\ \A k \in Sessions :
             (capture[k].pc = "finally" /\ capture'[k] # capture[k]) =>
                 capture'[k].pc = "done"]_vars

\* read() raised, and the ingestion thread has recorded it and exited
C8_Witness ==
    /\ last_error # NoError
    /\ last_error.op = "read"
    /\ faults = 1
    /\ \E k \in Sessions : capture[k].pc = "done" /\ capture[k].opened # None

\* C9: an ingestion thread that has exited after a successful open() has
\* closed the source object it opened, and no ingestion thread closes a
\* source object it did not open.
C9_CloseOncePerOpen ==
    \A k \in Sessions :
        /\ (capture[k].pc = "done" /\ capture[k].opened # None) =>
               capture[k].closed = capture[k].opened
        /\ capture[k].closed # None => capture[k].closed = capture[k].opened

\* the capacities of the shared queues are respected
QueuesBounded ==
    /\ Len(audio_buffer) <= AUDIO_BUFFER_SIZE
    /\ Len(audio_display_buffer) <= display_chunks
    /\ Len(processed_data) <= PROCESSED_DATA_BUFFER_SIZE
    /\ Len(energy_history) <= HISTORY_MAXLEN
    /\ Len(zcr_history) <= HISTORY_MAXLEN

\* C10: the shared queues never exceed their capacity, and a push of the
\* ingestion thread leaves in audio_buffer the last AUDIO_BUFFER_SIZE chunks
\* of the chunks it held followed by the new chunk, in arrival order.
C10_QueuesBoundedDropOldest ==
    /\ []QueuesBounded
    /\ [][\A k \in Sessions :
             (capture[k].pc = "push" /\ capture'[k].pc = "loop") =>
                 LET all == audio_buffer \o <<capture[k].audio_data>>
                 IN audio_buffer' =
                        IF Len(all) > AUDIO_BUFFER_SIZE
                        THEN SubSeq(all, Len(all) - AUDIO_BUFFER_SIZE + 1, Len(all))
                        ELSE all]_vars

\* the ingestion thread has pushed every chunk of its source, more than
\* audio_buffer holds, while the processing thread has taken none: the last
\* AUDIO_BUFFER_SIZE chunks remain
C10_Witness ==
    /\ sessions = 1
    /\ ui.i = 2
    /\ program[1].op = "start"
    /\ capture[1].pc = "loop"
    /\ source[1].pos = SourceLen
    /\ SourceChunks > AUDIO_BUFFER_SIZE
    /\ processing[1].pc = "loop"
    /\ processing[1].overlap_buffer = << >>
    /\ processed_data = << >>
    /\ audio_buffer = [i \in 1..AUDIO_BUFFER_SIZE |->
                          Chunk(1, (SourceChunks - AUDIO_BUFFER_SIZE + i - 1) * CHUNK_SIZE + 1,
                                   (SourceChunks - AUDIO_BUFFER_SIZE + i) * CHUNK_SIZE)]

\* the position in its source of the first sample of a record's frame
FramePos(r) == r.frame[2]

\* s is a run of consecutive elements of seq, in the order of seq
IsWindowOf(s, seq) ==
    \E a \in 1..(Len(seq) + 1) : \E b \in (a - 1)..Len(seq) : s = SubSeq(seq, a, b)

C12_RecentProcessedLength ==
    (trial.op = "get_recent_processed" /\ trial.pc = "return") =>
        LET n == Min(trial.max_display, Len(trial.pd))
            first == Len(trial.pd) - n
        IN /\ Len(trial.out.energies) = n
           /\ Len(trial.out.zcrs) = n
           /\ Len(trial.out.vads) = n
           /\ \A i \in 1..n :
                  /\ trial.out.energies[i] = trial.pd[first + i].energy
                  /\ trial.out.zcrs[i] = trial.pd[first + i].zcr
                  /\ trial.out.vads[i] = trial.pd[first + i].vad

\* the number of samples in the chunks of buf before chunk c
SamplesBefore(buf, c) == SumSeq([i \in 1..(c - 1) |-> ChunkLen(buf[i])])

\* the j-th sample of the chunks of buf in arrival order
ArrivalSample(buf, j) ==
    LET c == CHOOSE c \in 1..Len(buf) :
                 SamplesBefore(buf, c) < j /\ j <= SamplesBefore(buf, c + 1)
    IN <<buf[c].src, buf[c].lo + (j - SamplesBefore(buf, c)) - 1>>

\* C13: get_recent_audio() returns the samples of the chunks of
\* audio_display_buffer in arrival order, cut to the last
\* WAVEFORM_DISPLAY_LENGTH samples when there are more, and nothing when the
\* buffer holds no chunk.
C13_RecentAudioIsTail ==
    (trial.op = "get_recent_audio" /\ trial.pc = "return") =>
        LET total == SamplesBefore(trial.buf, Len(trial.buf) + 1)
            n == Min(total, WAVEFORM_DISPLAY_LENGTH)
        IN /\ Len(trial.out) = n
           /\ \A i \in 1..n : trial.out[i] = ArrivalSample(trial.buf, total - n + i)

\* the buffer holds more samples than the waveform display shows, in more
\* than one chunk, and the call has returned the last of them
C13_Witness ==
    /\ trial.op = "get_recent_audio"
    /\ trial.pc = "return"
    /\ Len(trial.buf) > 1
    /\ SamplesBefore(trial.buf, Len(trial.buf) + 1) > WAVEFORM_DISPLAY_LENGTH
    /\ Len(trial.out) = WAVEFORM_DISPLAY_LENGTH

\* C14: from the initial state, with attack = 1, hangover_on = 3 and
\* release_off = 2, the raw sequence voice, silence x 5 makes the runtime
\* smoothing emit 1, 1, 1, 1, 0, 0.
C14_HangoverTrace ==
    (trial.op = "smoothing"
        /\ trial.raw = <<TRUE, FALSE, FALSE, FALSE, FALSE, FALSE>>) =>
        trial.out = SubSeq(<<1, 1, 1, 1, 0, 0>>, 1, Len(trial.out))

\* the six frames of that run have been decided
C14_Witness ==
    /\ trial.op = "smoothing"
    /\ trial.raw = <<TRUE, FALSE, FALSE, FALSE, FALSE, FALSE>>
    /\ trial.pc = "return"
    /\ Len(trial.out) = 6
    /\ VAD_ATTACK_ON = 1 /\ VAD_HANGOVER_ON = 3 /\ VAD_RELEASE_OFF = 2

\* the raw decision of the frame a smoothing step decides is confirmed voice
ConfirmedVoice ==
    /\ trial.raw[Len(trial.out) + 1]
    /\ voice_run + 1 >= (IF VAD_ATTACK_ON = 0 THEN 1 ELSE VAD_ATTACK_ON)

\* C15: the release rule: on a frame that is not confirmed voice, with
\* hold = 0, the engine increments silence_run and emits SILENCE only once
\* silence_run >= release_off, and VOICE otherwise.
C15_ReleaseRule ==
    [][(trial.op = "smoothing" /\ Len(trial'.out) = Len(trial.out) + 1
           /\ ~ConfirmedVoice /\ vad_hold = 0) =>
          /\ silence_run' = silence_run + 1
          /\ trial'.out[Len(trial'.out)] =
                 (IF silence_run' >= VAD_RELEASE_OFF THEN 0 ELSE 1)]_vars

\* sample j (from 1) of the signal of the framing call, padded with zeros
PaddedSample(j) == IF j <= Len(trial.signal) THEN trial.signal[j] ELSE 0

\* the least n with n * hop_size >= signal_length - frame_size
FrameSteps ==
    CHOOSE n \in 0..Len(trial.signal) :
        /\ n * trial.hop_size >= Len(trial.signal) - trial.frame_size
        /\ \A m \in 0..(n - 1) : m * trial.hop_size < Len(trial.signal) - trial.frame_size

\* C19: for frame_size F > 0, hop_size H > 0 and a signal of L >= F samples
\* framing() returns exactly ceil((L - F) / H) + 1 frames of F samples each,
\* and frame k (from 0) holds the samples k*H .. k*H + F - 1 of the signal
\* padded with zeros on the right, multiplied by the window.
C19_FramingCount ==
    (trial.op = "framing" /\ trial.pc = "return" /\ trial.frame_size > 0
        /\ trial.hop_size > 0 /\ Len(trial.signal) >= trial.frame_size) =>
        LET w == FramingWindow(trial.frame_size, trial.window_type)
        IN /\ ~trial.out.raised
           /\ Len(trial.out.frames) = FrameSteps + 1
           /\ \A k \in 1..Len(trial.out.frames) :
                  /\ Len(trial.out.frames[k]) = trial.frame_size
                  /\ \A i \in 1..trial.frame_size :
                         100 * trial.out.frames[k][i] =
                             PaddedSample((k - 1) * trial.hop_size + i) * w[i]

\* a signal that does not end on a frame boundary has been framed: the last
\* frame reaches past the end of the signal
C19_Witness ==
    /\ trial.op = "framing"
    /\ trial.pc = "return"
    /\ trial.frame_size = 2
    /\ trial.hop_size = 2
    /\ Len(trial.signal) = 3
    /\ trial.signal[1] # 0
    /\ Len(trial.out.frames) = 2
    /\ trial.out.frames[2][2] = 0

\* C20: for a signal of L >= 1 samples (0 < L < F included), F > 0 and
\* 0 < H <= F, framing() returns, without raising, at least one frame, and
\* every sample of the signal lies in a frame; for L = 0, F <= 0 or H <= 0 it
\* returns no frame, without raising.
C20_FramingCoversSignal ==
    (trial.op = "framing" /\ trial.pc = "return") =>
        IF Len(trial.signal) = 0 \/ trial.frame_size <= 0 \/ trial.hop_size <= 0
        THEN ~trial.out.raised /\ trial.out.frames = << >>
        ELSE trial.hop_size <= trial.frame_size =>
                 /\ ~trial.out.raised
                 /\ Len(trial.out.frames) >= 1
                 /\ \A j \in 1..Len(trial.signal) :
                        \E k \in 1..Len(trial.out.frames) :
                            /\ (k - 1) * trial.hop_size < j
                            /\ j <= (k - 1) * trial.hop_size + trial.frame_size

\* every element of the sequence is zero (FALSE for raw decisions)
AllZero(seq) == \A i \in 1..Len(seq) : seq[i] = 0
AllSilent(raw) == \A i \in 1..Len(raw) : ~raw[i]

\* C16: when every frame has a false raw decision (an all-zero signal with
\* the default thresholds), from the initial state, every emitted vad is 0
\* and voice_ratio is 0.0, in the runtime smoothing and in the offline
\* compute_file_stats.
C16_SilenceYieldsNoVoice ==
    /\ (trial.op = "smoothing" /\ AllSilent(trial.raw)) => AllZero(trial.out)
    /\ (trial.op = "compute_file_stats" /\ AllZero(trial.signal) /\ ~auto_calibrate) =>
           /\ AllZero(trial.st.vads)
           /\ trial.out.voice_frames = 0

\* C18: the fixed decision of a frame is
\* (energy > energy_threshold) and ((zcr < zcr_threshold) or
\* (spec_entropy < spec_entropy_voice_max)); the raw decision is
\* fixed or adaptive with USE_ADAPTIVE_VAD on and fixed alone with it off;
\* the recorded vad_adaptive is the adaptive decision in both cases.
C18_GatingFormula ==
    (trial.op = "gating" /\ trial.pc = "return") =>
        LET energy_gate == 100 * trial.energy > energy_threshold
            zcr_gate == 100 * trial.zcr < zcr_threshold
            entropy_gate == 100 * trial.entropy < spec_entropy_voice_max
            fixed == energy_gate /\ (zcr_gate \/ entropy_gate)
            adaptive == adaptive_voice_activity_detection(
                            trial.energy, trial.zcr, trial.eh, trial.zh)
        IN /\ trial.out.fixed = fixed
           /\ trial.use_adaptive => (trial.out.vad_initial = (fixed \/ adaptive))
           /\ ~trial.use_adaptive => (trial.out.vad_initial = fixed)
           /\ trial.out.vad_adaptive = adaptive

\* with USE_ADAPTIVE_VAD off a frame passes the energy gate and the entropy
\* gate but not the zcr gate: the raw decision is voice by the fixed gates
\* alone, and the adaptive decision, recorded all the same, is voice too
C18_Witness ==
    /\ trial.op = "gating"
    /\ trial.pc = "return"
    /\ ~trial.use_adaptive
    /\ 100 * trial.energy > energy_threshold
    /\ 100 * trial.zcr >= zcr_threshold
    /\ 100 * trial.entropy < spec_entropy_voice_max
    /\ trial.out.vad_initial
    /\ trial.out.vad_adaptive

\* the thresholds the calibration computes from the features of frames
CalibratedThresholds(seen) ==
    LET ce == [i \in 1..Len(seen) |-> seen[i].energy]
        cz == [i \in 1..Len(seen) |-> seen[i].zcr]
        cs == [i \in 1..Len(seen) |-> seen[i].spec_entropy]
    IN << Max(100 * MIN_ENERGY_THRESHOLD, Percentile100(ce, AUTO_ENERGY_PERCENTILE)),
          Clip(Percentile100(cz, AUTO_ZCR_PERCENTILE), 0, 50 * FRAME_SIZE),
          Clip(Percentile100(cs, AUTO_ENTROPY_PERCENTILE), 0, 10000) >>

\* C17: with auto-calibration enabled and a target N > 0 the calibration
\* fires exactly once per session: the step that decides the N-th frame of a
\* session sets the thresholds to the configured percentiles of the features
\* of the session's first N frames (energy floored, zcr and entropy clamped),
\* and the step that decides any other frame of the session leaves the
\* thresholds and the calibration flag as they are.
C17_CalibrationOncePerSession ==
    [][\A k \in Sessions :
          (auto_calibrate /\ calibration_frames_target > 0
              /\ processing[k].pc = "frame" /\ processing'[k].pc = "append") =>
              IF Len(trial'.seen[k]) = calibration_frames_target
              THEN /\ ~calibration_done
                   /\ calibration_done'
                   /\ thresholds' = CalibratedThresholds(trial'.seen[k])
              ELSE /\ thresholds' = thresholds
                   /\ calibration_done' = calibration_done]_vars

\* C21: applied to an empty frame, 1-D or 2-D, each of
\* calculate_short_time_energy, calculate_zero_crossing_rate,
\* calculate_spectral_entropy and compute_mfcc returns an empty or zero-valued
\* result and none of them raises.
C21_ExtractorsAcceptEmptyFrames ==
    (trial.op = "extract" /\ trial.pc = "return" /\ ArraySize(trial.shape) = 0)
        => \A f \in {"energy", "zcr", "entropy", "mfcc"} :
               /\ ~trial.out[f].raised
               /\ trial.out[f].value \in {"empty", "zero"}

\* C22: for a non-empty frame, num_ceps >= 1, num_filters >= 1 (num_ceps may
\* exceed num_filters) and any lifter, compute_mfcc returns without raising
\* exactly num_ceps coefficients per frame.
C22_MfccLengthIsNumCeps ==
    (trial.op = "extract" /\ trial.pc = "return" /\ ArraySize(trial.shape) > 0)
        => /\ ~trial.out.mfcc.raised
           /\ trial.out.mfcc.shape =
                  IF Len(trial.shape) = 1 THEN <<trial.num_ceps>>
                  ELSE <<trial.shape[1], trial.num_ceps>>

\* the adjacent pairs of a frame whose two samples have opposite signs
SignChanges(frame) ==
    {i \in 1..(Len(frame) - 1) : frame[i] * frame[i + 1] < 0}

\* C23: for a frame of F >= 1 samples the zero-crossing rate is 0 when all
\* samples have the same non-zero sign and (F - 1) / F when the sign
\* alternates at every sample, and an adjacency in which one sample is
\* exactly 0 is not counted as a crossing.
C23_ZeroCrossingRate ==
    (trial.op = "zcr" /\ trial.pc = "return")
        => LET frame == trial.frame
               F == Len(frame)
               crossings == trial.out[1]
           IN /\ Len(trial.out) = 1
              /\ (\A i \in 1..F : Sign(frame[i]) = Sign(frame[1]) /\ frame[1] # 0)
                     => crossings = 0
              /\ (\A i \in 1..(F - 1) : frame[i] * frame[i + 1] < 0)
                     => crossings = F - 1
              /\ crossings = Cardinality(SignChanges(frame))

\* the decisions compute_file_stats emits for a run of raw decisions, from
\* its initial counters (vad_hold = 0, silence_run = 0)
RECURSIVE OfflineRun(_)
OfflineRun(raw) ==
    IF raw = << >> THEN [vads |-> << >>, hold |-> 0, silence_run |-> 0]
    ELSE LET before == OfflineRun(SubSeq(raw, 1, Len(raw) - 1))
             sm == OfflineSmooth(raw[Len(raw)], before.hold, before.silence_run)
         IN [vads |-> Append(before.vads, sm.vad), hold |-> sm.hold,
             silence_run |-> sm.silence_run]

\* C24: given the same raw per-frame decisions from the initial state, the
\* smoothing of compute_file_stats emits for every frame the decision the
\* runtime smoothing emits.
C24_OfflineSmoothingMatchesRuntime ==
    trial.op = "smoothing"
        => trial.out = OfflineRun(SubSeq(trial.raw, 1, Len(trial.out))).vads

\* frame i of the run and the `attack` - 1 frames before it all had a true
\* raw decision
RawVoiceRun(raw, i, attack) ==
    /\ i >= attack
    /\ \A j \in (i - attack + 1)..i : raw[j]

\* C28: with attack = A >= 1 and hold = 0, a frame is emitted as voice only
\* when it and the A - 1 frames before it all had a true raw decision; every
\* raw-silent frame resets voice_run to 0; on confirmation hold is set to
\* VAD_HANGOVER_ON and silence_run to 0.
C28_AttackConfirmation ==
    [][(trial.op = "attack" /\ trial'.out # trial.out)
          => LET i == Len(trial'.out)
                 confirmed == RawVoiceRun(trial.raw, i, trial.attack)
             IN /\ (vad_hold = 0 /\ trial'.out[i] = 1) => confirmed
                /\ ~trial.raw[i] => voice_run' = 0
                /\ confirmed => /\ trial'.out[i] = 1
                                /\ vad_hold' = VAD_HANGOVER_ON
                                /\ silence_run' = 0]_vars

\* a run with attack 2 whose last two frames are raw voice: the first of them
\* was emitted as silence, the second is confirmed and starts the hangover
C28_Witness ==
    /\ trial.op = "attack"
    /\ trial.attack = 2
    /\ Len(trial.out) >= 2
    /\ LET i == Len(trial.out)
       IN /\ trial.raw[i - 1] /\ trial.raw[i]
          /\ trial.out[i - 1] = 0 /\ trial.out[i] = 1
          /\ vad_hold = VAD_HANGOVER_ON
          /\ silence_run = 0

\* a step in which the read() of ingestion thread k returns no samples
EmptyRead(k) ==
    /\ capture[k].pc = "read"
    /\ capture'[k] # capture[k]
    /\ faults' = faults
    /\ ChunkLen(FileReadChunk(audio_source, source[audio_source], CHUNK_SIZE)) = 0

\* C26: when a read returns no samples, the ingestion thread sets is_running
\* false and leaves its loop if and only if the source reports exhausted and
\* auto_stop_on_eof is set; otherwise it pushes nothing to either queue,
\* leaves is_running unchanged and goes back to the head of its loop.
C26_EofHandling ==
    [][\A k \in Sessions :
          EmptyRead(k)
              => LET exits == capture'[k].pc = "finally"
                 IN /\ exits <=> (source'[audio_source].exhausted /\ auto_stop_on_eof)
                    /\ exits => is_running' = FALSE
                    /\ ~exits => /\ capture'[k].pc = "loop"
                                 /\ UNCHANGED is_running
                    /\ UNCHANGED queues]_vars

\* the ingestion thread has left its loop at the end of the file while the
\* caller has made no call since start()
C26_Witness ==
    /\ PrevCall = "start"
    /\ ui.pc = "idle"
    /\ faults = 0
    /\ auto_stop_on_eof
    /\ ~is_running
    /\ \E k \in Sessions :
           /\ capture[k].pc = "finally"
           /\ source[audio_source].exhausted
           /\ audio_thread = k

\* stop() has set is_running false and has not returned
Cancelled == ui.pc \in {"join_audio", "join_processing"}

\* C25: once stop() has set is_running false, the ingestion thread leaves its
\* loop at its next loop test and the processing thread at its next one (after
\* the frames of the chunk it holds), so both threads terminate and stop()
\* returns, provided every read() returns and the threads are scheduled.
C25_CancellationTerminates ==
    /\ [][Cancelled =>
             \A k \in Sessions :
                 /\ (capture[k].pc = "loop" /\ capture'[k] # capture[k])
                        => capture'[k].pc = "finally"
                 /\ (processing[k].pc = "loop" /\ processing'[k] # processing[k])
                        => processing'[k].pc = "done"]_vars
    /\ Cancelled ~> (ThreadsExited /\ ui.pc = "idle")

\* stop() has returned after joining two threads that were both in their
\* loops when it was called
C25_Witness ==
    /\ PrevCall = "stop"
    /\ ui.pc = "idle"
    /\ audio_thread # None /\ capture[audio_thread].pc = "done"
    /\ processing_thread # None /\ processing[processing_thread].pc = "done"
    /\ last_error = NoError
    /\ ~(auto_stop_on_eof /\ source[audio_source].exhausted)

\* the chunks thread k popped are the first samples of source s in order:
\* no chunk was evicted before the thread could pop it
ConsumedPrefix(k, s) ==
    \A i \in 1..Len(trial.consumed[k]) : trial.consumed[k][i] = <<s, i>>

\* thread k holds no unprocessed chunk
BetweenChunks(k) == processing[k].pc \in {"loop", "check", "pop"}

\* C27: in a session without eviction, when the processing thread has
\* consumed chunks of L samples in total it has appended 0 records if
\* L < frame_size and floor((L - frame_size) / hop_size) + 1 otherwise, one
\* per extracted frame; frame n (from 0) holds the stream samples
\* n * hop_size .. n * hop_size + frame_size - 1; and the carry-over buffer
\* is shorter than frame_size.
C27_StreamFraming ==
    trial.op = "stream"
        => \A k \in Sessions : \A s \in Sources :
               (BetweenChunks(k) /\ ConsumedPrefix(k, s))
                   => LET L == Len(trial.consumed[k])
                          frames == trial.frames[k]
                      IN /\ trial.appended[k] =
                                IF L < FRAME_SIZE THEN 0
                                ELSE ((L - FRAME_SIZE) \div HOP_SIZE) + 1
                         /\ Len(frames) = trial.appended[k]
                         /\ \A n \in 1..Len(frames) :
                                frames[n] = [j \in 1..FRAME_SIZE |->
                                                <<s, (n - 1) * HOP_SIZE + j>>]
                         /\ Len(processing[k].overlap_buffer) < FRAME_SIZE

\* a thread that consumed a whole file of SourceChunks chunks, none evicted,
\* and appended a record for each of its frames
C27_Witness ==
    /\ trial.op = "stream"
    /\ \E k \in Sessions : \E s \in Sources :
           /\ BetweenChunks(k)
           /\ ConsumedPrefix(k, s)
           /\ Len(trial.consumed[k]) = SourceLen
           /\ trial.appended[k] >= 2

\* the steps taken inside a `with self.lock:` block
UnderLock ==
    \/ \E k \in Sessions : capture_push(k)
    \/ \E k \in Sessions : processing_pop(k)
    \/ \E k \in Sessions : processing_append(k)
    \/ save_data
    \/ save_data_second

\* the steps that write one of the five shared queues, and the steps of the
\* processing thread that read one: the test of len(audio_buffer) and the
\* decision of a frame from energy_history and zcr_history
AccessesQueue ==
    \/ queues' # queues
    \/ \E k \in Sessions : processing_check(k)
    \/ \E k \in Sessions : processing_frame(k) /\ processing'[k].pc = "append"

\* C29: every read or write of audio_buffer, audio_display_buffer,
\* processed_data, energy_history and zcr_history, by the ingestion thread,
\* the processing thread, the snapshot calls and set_audio_source(), is made
\* while holding AudioRuntime.lock.
C29_QueuesAccessedUnderLock == [][AccessesQueue => UnderLock]_vars

\* thread k is inside the body of the frame loop, which reads and writes the
\* calibration buffers, the thresholds and the hysteresis counters
InVadCode(k) ==
    /\ processing[k].pc = "frame"
    /\ Len(processing[k].overlap_buffer) >= FRAME_SIZE

\* the caller is inside the statements of set_audio_source that reset the
\* calibration state
CallerInVadCode ==
    ui.pc \in {"sas_cal_done", "sas_cal_energy", "sas_cal_zcr", "sas_cal_entropy"}

\* C30: under any sequence of start(), stop(), set_audio_source() and EOF
\* auto-stop, at most one thread at a time is executing code that reads or
\* writes the hysteresis counters, the thresholds and the calibration buffers.
C30_SingleVadWriter ==
    Cardinality({k \in Sessions : InVadCode(k)})
        + (IF CallerInVadCode THEN 1 ELSE 0) <= 1

\* C31: a start() that follows stop() on the same source begins the new
\* session with empty raw, display and processed queues, empty adaptive
\* histories, zero hysteresis counters and calibration not yet done.
C31_RestartResetsSession ==
    [][(StartStep /\ ~is_running /\ PrevCall = "stop") =>
          /\ audio_buffer' = << >>
          /\ audio_display_buffer' = << >>
          /\ processed_data' = << >>
          /\ energy_history' = << >>
          /\ zcr_history' = << >>
          /\ vad_hold' = 0 /\ silence_run' = 0 /\ voice_run' = 0
          /\ ~calibration_done'
          /\ cal_energy' = << >> /\ cal_zcr' = << >> /\ cal_entropy' = << >>]_vars

\* C32: with auto-calibration enabled and a calibration target N >= 0 (0 is
\* the value when no target is configured), the calibration buffers never
\* hold more than N values, and no value is appended to them after the N-th
\* frame of the session.
C32_CalibrationBuffersBounded ==
    [][(trial.op = "calibration" /\ auto_calibrate /\ trial'.frames = trial.frames + 1)
          => /\ Len(cal_energy') <= trial.target
             /\ Len(cal_zcr') <= trial.target
             /\ Len(cal_entropy') <= trial.target
             /\ trial.frames >= trial.target => UNCHANGED calib]_vars

\* C33: in every reachable state at most one ingestion thread and at most one
\* processing thread of the runtime are alive, so start() creates threads
\* only when the threads of every previous session have exited.
C33_OneThreadOfEachKind ==
    /\ Cardinality(AliveCapture) <= 1
    /\ Cardinality(AliveProcessing) <= 1

\* the caller has made a call of set_audio_source() and is not inside one:
\* audio_source is the source the last such call installed
SasReturned ==
    /\ \E i \in 1..(ui.i - 1) : program[i].op = "set_audio_source"
    /\ ui.pc \notin {SasOrder[i] : i \in 1..(Len(SasOrder) - 1)}
    /\ ui.ret = "idle"

\* C34: once set_audio_source() has returned, no record computed from chunks
\* of the previous source is appended to processed_data, energy_history and
\* zcr_history, also when the replacement follows an EOF auto-stop and the
\* previous processing thread has not exited.
C34_NoStaleRecord ==
    [][\A k \in Sessions :
          (SasReturned /\ processing[k].pc = "append" /\ processing'[k].pc # "append")
              => processing[k].rec.frame[1] = audio_source]_vars

\* C35: whenever a processing thread executes audio_buffer.popleft(),
\* audio_buffer is non-empty, under every interleaving with the ingestion
\* thread, with the clear() of set_audio_source() and with start()/stop().
C35_PopFromNonEmptyQueue ==
    [][\A k \in Sessions :
          (processing[k].pc = "pop" /\ processing'[k].pc # "pop")
              => Len(audio_buffer) > 0]_vars

\* C36: when a session ends because the source is exhausted and
\* auto_stop_on_eof is set, every chunk that was pushed into audio_buffer and
\* not evicted has been dequeued by the processing thread when that thread
\* terminates.
C36_NoTailLossAtEof ==
    \A k \in Sessions :
        (/\ processing[k].pc = "done"
         /\ auto_stop_on_eof
         /\ source[audio_source].exhausted
         /\ faults = 0)
            => audio_buffer = << >>

\* the samples of a frame follow each other in the stream of one source
Contiguous(frame) ==
    \A j \in 1..(Len(frame) - 1) :
        frame[j + 1] = <<frame[j][1], frame[j][2] + 1>>

\* C37: every frame the processing thread extracts consists of frame_size
\* consecutive samples of the ingested stream, also when chunks were evicted
\* from audio_buffer between two dequeues.
C37_FramesAreContiguous ==
    trial.op = "stream"
        => \A k \in Sessions : \A n \in 1..Len(trial.frames[k]) :
               /\ Len(trial.frames[k][n]) = FRAME_SIZE
               /\ Contiguous(trial.frames[k][n])

\* C38: after every processed frame 0 <= hold <= VAD_HANGOVER_ON,
\* silence_run >= 0 and voice_run >= 0; silence_run > 0 implies hold = 0; and
\* the emitted decision is silence only on a frame that left hold at 0 and
\* incremented silence_run.
C38_HysteresisCounters ==
    [][(trial.op = "attack" /\ trial'.out # trial.out)
          => /\ 0 <= vad_hold' /\ vad_hold' <= VAD_HANGOVER_ON
             /\ silence_run' >= 0
             /\ voice_run' >= 0
             /\ silence_run' > 0 => vad_hold' = 0
             /\ trial'.out[Len(trial'.out)] = 0
                    => /\ vad_hold = 0 /\ vad_hold' = 0
                       /\ silence_run' = silence_run + 1]_vars

\* a run in which the hangover after a confirmed voice frame has expired and
\* the last frame is the second silent one in a row
C38_Witness ==
    /\ trial.op = "attack"
    /\ \E i \in 1..Len(trial.out) : trial.out[i] = 1 /\ trial.raw[i]
    /\ Len(trial.out) >= 2
    /\ trial.out[Len(trial.out)] = 0
    /\ trial.out[Len(trial.out) - 1] = 0
    /\ vad_hold = 0
    /\ silence_run = 2
    /\ voice_run = 0

====
